---- MODULE Spec2Model ----
(***************************************************************************)
(* A model of the protocol core of RICQ: the network loop of               *)
(* ricq/src/client/net.rs (start, stop, disconnect, net_loop), the dedup   *)
(* checks and message handling of                                          *)
(* ricq/src/client/processor/online_push.rs, the rolling cache of          *)
(* ricq/src/client/processor/c2c/group_system_msg.rs and the login         *)
(* decoder of ricq-core/src/command/wtlogin/mod.rs, and the force-offline  *)
(* processor of ricq/src/client/processor/stat_svc.rs.                     *)
(*                                                                         *)
(* The specifications share the variables:                                 *)
(*   SpecNet       the network loop with stop callers on other threads,    *)
(*   SpecStop      the network loop with stop called as one step,          *)
(*   SpecPush      one task at a time: online-push messages, push          *)
(*                 transactions or batches of group system messages,       *)
(*   SpecExists    two tasks running the dedup check at the same time,     *)
(*   SpecGroup     two tasks running process_group_system_messages,        *)
(*   SpecParse     parse_group_message applied to a list of parts,         *)
(*   SpecDecode    LoginResponse::decode applied to a status and a map,    *)
(*   SpecPow       t546_to_t547 applied to a challenge,                    *)
(*   SpecFrame     the framing of net_loop applied to a payload or to      *)
(*                 the bytes of a peer,                                    *)
(*   SpecPushReq   process_push_req applied to a batch of messages,        *)
(*   SpecDecodeBytes  LoginResponse::decode reading into the bytes of the  *)
(*                 values of the map,                                      *)
(*   SpecOffline   the network loop with process_msf_force_offline in a    *)
(*                 task of its own,                                        *)
(*   SpecNetFair   SpecNet under fair scheduling of the tasks.             *)
(* Each leaves the variables of the other subsystems at their initial      *)
(* value.                                                                  *)
(***************************************************************************)
EXTENDS Integers, Sequences, FiniteSets, TLC

VARIABLES
    \* ---- net.rs ----
    status,      \* Client.status (AtomicU8 holding a NetworkStatus)
    online,      \* Client.online (AtomicBool)
    startPc,     \* position of the task that runs Client::start
    exitCause,   \* why net_loop ended ("none" while it has not)
    startSaw,    \* what get_status() returned to start (line 35)
    sigSub,      \* net_loop's disconnect_signal receiver exists
    sigReady,    \* a disconnect signal waits in that receiver
    startSend,   \* the result of start's disconnect_signal.send(())
    outSub,      \* net_loop's out_pkt_sender receiver (rx) exists
    outQ,        \* frames retained by the broadcast channel for rx
    outLag,      \* rx was overrun: its next recv() is Err(Lagged)
    nextFrame,   \* number of frames published so far
    curOut,      \* frame handed to write_half.send (0: none)
    written,     \* frames written to the stream, in order
    inPos,       \* number of frames taken from the inbound stream
    curIn,       \* frame inside process_income_packet (0: none)
    processed,   \* frames whose process_income_packet completed, in order
    stopPc,      \* per stop caller, its position inside Client::stop
    stopReason,  \* per stop caller, the status argument of its call
    stopAt,      \* per stop caller, whether status was Running at its call
    \* ---- history of whole stop calls (SpecStop) ----
    lastStop,    \* reason of the stop call that was the latest step, or "none"
    stopRun,     \* how many stop calls with that reason ran in a row (up to 2)
    off,         \* the task running process_msf_force_offline: its position,
                 \* the result of its send, the handler invocations and what
                 \* the handler saw
    \* ---- online_push.rs: the dedup checks ----
    chan,        \* the stream the server drives: "req", "trans" or "group"
    reqCache,    \* Client.push_req_cache
    transCache,  \* Client.push_trans_cache
    last,        \* the latest delivery and what the check did with it
    pairCalls,   \* handler invocations of the latest two deliveries when they
                 \* carry the same key, both passed the time-gate and the
                 \* first was admitted (else -1)
    sinceReset,  \* misses counted since the cache was last cleared
    \* ---- group_system_msg.rs ----
    groupCache,  \* Client.group_sys_message_cache (a GroupSystemMessages)
    groupOut,    \* what the latest batch did with each of its requests
    groupSeen,   \* the msg_seqs of the latest batches, oldest first
    \* ---- two tasks inside the dedup check of one stream ----
    ePc,         \* per task, its position inside push_req/trans_exists
    eInfo,       \* per task, the message of its call
    eLock,       \* the task holding the cache's write lock, or "none"
    ePaired,     \* the latest call began while the other task was inside a
                 \* call for the same key, absent from the cache, both on time
    eRes,        \* what the calls of such a pair have returned so far
    \* ---- two tasks inside process_group_system_messages ----
    gPc,         \* per task, its position
    gBatch,      \* per task, the msgs argument of its call
    gOut,        \* per task, what its call did with each request so far
    gNew,        \* per task, the on-time requests of its batch that the
                 \* cache did not hold at its call
    gRace,       \* the requests new to both calls, when the latest call
                 \* began while the other task was inside its call
    \* ---- functions applied to an argument ----
    callee,      \* the function the behaviour applies ("none": no function)
    input,       \* its argument
    output,      \* what its applications so far returned, latest last
    work         \* the locals of an application in progress

netVars == <<status, online, startPc, exitCause, startSaw, sigSub, sigReady,
             startSend, outSub, outQ, outLag, nextFrame, curOut,
             written, inPos, curIn, processed, stopPc, stopReason, stopAt>>

stopVars == <<lastStop, stopRun, off>>

pushVars == <<chan, reqCache, transCache, last, pairCalls, sinceReset>>

groupVars == <<groupCache, groupOut, groupSeen>>

existsVars == <<ePc, eInfo, eLock, ePaired, eRes>>

taskVars == <<gPc, gBatch, gOut, gNew, gRace>>

\* what the steps of net.rs leave alone
callVars == <<callee, input, output, work>>

otherVars == <<pushVars, groupVars, existsVars, taskVars, callVars>>

vars == <<netVars, stopVars, pushVars, groupVars, existsVars, taskVars,
          callVars>>

----------------------------------------------------------------------------
(* Bounds *)

MaxIn == 2          \* inbound frames the peer sends before EOF
MaxOut == 2         \* outbound frames the producers publish
OutCap == 1         \* capacity of the out_pkt_sender broadcast channel
StartTime == 5      \* Client.start_time, in seconds
MaxKeys == 11       \* distinct messages the server sends
SeqSpan == 4        \* distinct msg_seq values (msg_seq is reused, msg_uid not)
MaxHits == 1        \* cache hits counted before the next flush
MaxParts == 3       \* parts of one group message
MaxIndex == 2       \* highest pkg_index of a part
MaxTags == 3        \* tags present in the tlv_map given to decode
MaxN == 3           \* highest value the proof-of-work search looks at
MaxBody == 2        \* bytes of a short payload
MaxBatch == 2       \* messages of a batch of process_push_req
MaxValueLen == 6    \* bytes of a TLV value that decode reads into

\* the tasks that call stop, once each
Stoppers == {"s1", "s2"}

\* NetworkStatus values the claims speak of; "Idle" is the status before start.
Statuses == {"Idle", "Running", "NetworkOffline", "MsfOffline"}
Reasons == {"MsfOffline", "NetworkOffline"}

Range(s) == {s[i] : i \in 1..Len(s)}

----------------------------------------------------------------------------
(* net.rs: the operations on the shared flags, as functions of the client *)

Client == [status |-> status, online |-> online,
           sigSub |-> sigSub, sigReady |-> sigReady]

\* disconnect(): disconnect_signal.send(()).ok(); Err (no receiver) is dropped.
Disconnect(c) == [c EXCEPT !.sigReady = c.sigReady \/ c.sigSub]

DisconnectResult(c) == IF c.sigSub THEN "ok" ELSE "no_receiver"

\* a stop that only overrides a running client
StoreStatusIfRunning(c, reason) ==
    IF c.status = "Running" THEN [c EXCEPT !.status = reason] ELSE c

\* stop, line 43: self.status.store(status as u8)
StoreStatus(c, reason) == [c EXCEPT !.status = reason]

\* stop, line 44: self.online.store(false)
ClearOnline(c) == [c EXCEPT !.online = FALSE]

\* stop(status) run from c with no other task in between
Stop(c, reason) == ClearOnline(StoreStatus(Disconnect(c), reason))

\* a start that stores NetworkOffline whatever it read
StoreAfterLoopAlways(c, saw) == [c EXCEPT !.status = "NetworkOffline"]

\* a start that marks the client offline when it returns
StoreAfterLoopOffline(c, saw) ==
    IF saw = "Running"
        THEN [c EXCEPT !.status = "NetworkOffline", !.online = FALSE]
        ELSE [c EXCEPT !.online = FALSE]

\* a start that leaves the status as the loop left it
StoreAfterLoopNever(c, saw) == c

\* start, lines 35-38, on the value get_status() returned
StoreAfterLoop(c, saw) ==
    IF saw = "Running" THEN [c EXCEPT !.status = "NetworkOffline"] ELSE c

----------------------------------------------------------------------------
(* net.rs: Client::start and Client::net_loop *)

NetInit ==
    /\ status = "Idle"
    /\ online = FALSE
    /\ startPc = "idle"
    /\ exitCause = "none"
    /\ startSaw = "none"
    /\ sigSub = FALSE
    /\ sigReady = FALSE
    /\ startSend = "none"
    /\ outSub = FALSE
    /\ outQ = <<>>
    /\ outLag = FALSE
    /\ nextFrame = 0
    /\ curOut = 0
    /\ written = <<>>
    /\ inPos = 0
    /\ curIn = 0
    /\ processed = <<>>
    /\ stopPc = [t \in Stoppers |-> "idle"]
    /\ stopReason = [t \in Stoppers |-> "none"]
    /\ stopAt = [t \in Stoppers |-> FALSE]

\* process_msf_force_offline has not been called
OffIdle ==
    [pc |-> "idle", rsp |-> "none", handled |-> 0,
     saw |-> [status |-> "none", online |-> FALSE]]

StopInit ==
    /\ lastStop = "none"
    /\ stopRun = 0
    /\ off = OffIdle

\* a step of the loop, of a producer or of a stop caller on another thread: it
\* ends any run of whole stop calls and leaves the other subsystems alone
NetFrame ==
    /\ lastStop' = "none"
    /\ stopRun' = 0
    /\ UNCHANGED off
    /\ UNCHANGED otherVars

LoopRunning == startPc \in {"loop", "income", "write"}

\* start, lines 31-32
StartStoreRunning ==
    /\ startPc = "idle"
    /\ status' = "Running"
    /\ startPc' = "subscribe"
    /\ UNCHANGED <<online, exitCause, startSaw, sigSub, sigReady, startSend,
                   outSub, outQ, outLag, nextFrame, curOut, written,
                   inPos, curIn, processed, stopPc, stopReason, stopAt>>
    /\ NetFrame

\* net_loop, lines 54-62: the two receivers are created
NetLoopSubscribe ==
    /\ startPc = "subscribe"
    /\ startPc' = "loop"
    /\ sigSub' = TRUE
    /\ sigReady' = FALSE
    /\ outSub' = TRUE
    /\ outQ' = <<>>
    /\ outLag' = FALSE
    /\ UNCHANGED <<status, online, exitCause, startSaw, startSend,
                   nextFrame, curOut, written, inPos, curIn, processed,
                   stopPc, stopReason, stopAt>>
    /\ NetFrame

\* a loop that notes the failure and goes on
BreakKeepsLooping(cause) ==
    /\ startPc' = "loop"
    /\ exitCause' = cause
    /\ sigSub' = sigSub
    /\ outSub' = outSub

\* leaving net_loop drops both receivers
Break(cause) ==
    /\ startPc' = "disconnect"
    /\ exitCause' = cause
    /\ sigSub' = FALSE
    /\ outSub' = FALSE

\* a reader that passes over a frame
ReadNextSkipping(pos) == pos + 2

\* line 65: read_half.next() yields the frame after the pos frames taken
ReadNext(pos) == pos + 1

\* net_loop, lines 65-75: read_half.next() yields a frame that decodes
LoopReadFrame ==
    /\ startPc = "loop"
    /\ inPos < MaxIn
    /\ inPos' = ReadNext(inPos)
    /\ curIn' = ReadNext(inPos)
    /\ startPc' = "income"
    /\ UNCHANGED <<status, online, exitCause, startSaw, sigSub, sigReady,
                   startSend, outSub, outQ, outLag, nextFrame, curOut,
                   written, processed, stopPc, stopReason, stopAt>>
    /\ NetFrame

\* net_loop, line 68: process_income_packet(pkt).await completes
IncomeDone ==
    /\ startPc = "income"
    /\ processed' = Append(processed, curIn)
    /\ curIn' = 0
    /\ startPc' = "loop"
    /\ UNCHANGED <<status, online, exitCause, startSaw, sigSub, sigReady,
                   startSend, outSub, outQ, outLag, nextFrame, curOut,
                   written, inPos, stopPc, stopReason, stopAt>>
    /\ NetFrame

\* net_loop, lines 69-71: the frame read does not decode
LoopReadUndecodable ==
    /\ startPc = "loop"
    /\ inPos < MaxIn
    /\ inPos' = ReadNext(inPos)
    /\ Break("decode")
    /\ UNCHANGED <<status, online, startSaw, sigReady, startSend, outQ, outLag,
                   nextFrame, curOut, written, curIn, processed,
                   stopPc, stopReason, stopAt>>
    /\ NetFrame

\* net_loop, lines 72-74: read_half.next() is None (EOF) or Some(Err(_))
LoopReadEnd ==
    /\ startPc = "loop"
    /\ \E cause \in {"eof", "read_err"} :
          /\ cause = "eof" => inPos = MaxIn
          /\ Break(cause)
    /\ UNCHANGED <<status, online, startSaw, sigReady, startSend, outQ, outLag,
                   nextFrame, curOut, written, inPos, curIn,
                   processed, stopPc, stopReason, stopAt>>
    /\ NetFrame

\* net_loop, lines 76-77: rx.recv() is Ok(output)
RecvOk(q) == <<Head(q), Tail(q)>>

LoopRecvFrame ==
    /\ startPc = "loop"
    /\ ~outLag
    /\ outQ # <<>>
    /\ curOut' = RecvOk(outQ)[1]
    /\ outQ' = RecvOk(outQ)[2]
    /\ startPc' = "write"
    /\ UNCHANGED <<status, online, exitCause, startSaw, sigSub, sigReady,
                   startSend, outSub, outLag, nextFrame, written,
                   inPos, curIn, processed, stopPc, stopReason, stopAt>>
    /\ NetFrame

\* net_loop, lines 76-77 and 81: rx.recv() is Err(Lagged(_)); the if let
\* does not match and the loop goes on with the oldest retained frame next
LoopRecvLagged ==
    /\ startPc = "loop"
    /\ outLag
    /\ outLag' = FALSE
    /\ UNCHANGED <<status, online, startPc, exitCause, startSaw, sigSub,
                   sigReady, startSend, outSub, outQ, nextFrame,
                   curOut, written, inPos, curIn, processed, stopPc,
                   stopReason, stopAt>>
    /\ NetFrame

\* net_loop, line 78: write_half.send(output).await is Ok
WriteOk ==
    /\ startPc = "write"
    /\ written' = Append(written, curOut)
    /\ curOut' = 0
    /\ startPc' = "loop"
    /\ UNCHANGED <<status, online, exitCause, startSaw, sigSub, sigReady,
                   startSend, outSub, outQ, outLag, nextFrame, inPos,
                   curIn, processed, stopPc, stopReason, stopAt>>
    /\ NetFrame

\* net_loop, lines 78-80: write_half.send(output).await is Err
WriteErr ==
    /\ startPc = "write"
    /\ Break("write_err")
    /\ UNCHANGED <<status, online, startSaw, sigReady, startSend, outQ, outLag,
                   nextFrame, curOut, written, inPos, curIn,
                   processed, stopPc, stopReason, stopAt>>
    /\ NetFrame

\* a disconnect branch that writes the pending frames before it leaves
PendingAfterSignalDrained(w, q) == <<w \o q, <<>>>>

\* what the disconnect branch does to the frames still in the channel
PendingAfterSignal(w, q) == <<w, q>>

\* net_loop, lines 83-85: disconnect_signal.recv() resolves
LoopDisconnect ==
    /\ startPc = "loop"
    /\ sigReady
    /\ written' = PendingAfterSignal(written, outQ)[1]
    /\ outQ' = PendingAfterSignal(written, outQ)[2]
    /\ Break("signal")
    /\ UNCHANGED <<status, online, startSaw, sigReady, startSend, outLag,
                   nextFrame, curOut, inPos, curIn, processed,
                   stopPc, stopReason, stopAt>>
    /\ NetFrame

\* start, line 34: self.disconnect()
StartDisconnect ==
    /\ startPc = "disconnect"
    /\ sigReady' = Disconnect(Client).sigReady
    /\ startSend' = DisconnectResult(Client)
    /\ startPc' = "check"
    /\ UNCHANGED <<status, online, exitCause, startSaw, sigSub, outSub, outQ,
                   outLag, nextFrame, curOut, written, inPos, curIn,
                   processed, stopPc, stopReason, stopAt>>
    /\ NetFrame

\* start, line 35: self.get_status()
StartGetStatus ==
    /\ startPc = "check"
    /\ startSaw' = status
    /\ startPc' = "store"
    /\ UNCHANGED <<status, online, exitCause, sigSub, sigReady, startSend,
                   outSub, outQ, outLag, nextFrame, curOut, written,
                   inPos, curIn, processed, stopPc, stopReason, stopAt>>
    /\ NetFrame

\* start, lines 35-39: the conditional store, then start returns
StartStoreAfterLoop ==
    /\ startPc = "store"
    /\ status' = StoreAfterLoop(Client, startSaw).status
    /\ online' = StoreAfterLoop(Client, startSaw).online
    /\ startPc' = "done"
    /\ UNCHANGED <<exitCause, startSaw, sigSub, sigReady, startSend,
                   outSub, outQ, outLag, nextFrame, curOut, written,
                   inPos, curIn, processed, stopPc, stopReason, stopAt>>
    /\ NetFrame

----------------------------------------------------------------------------
(* The callers of the client while the loop runs *)

\* out_pkt_sender.send(frame) by a producer while rx exists (with no receiver
\* the send fails and the producer gets the error): the channel keeps the last
\* OutCap frames for rx; an older unread frame is overwritten and rx lags
ChannelSend(q, lag, f) ==
    IF Len(q) < OutCap THEN <<Append(q, f), lag>>
    ELSE <<Append(Tail(q), f), TRUE>>

Publish ==
    /\ outSub
    /\ nextFrame < MaxOut
    /\ nextFrame' = nextFrame + 1
    /\ outQ' = ChannelSend(outQ, outLag, nextFrame + 1)[1]
    /\ outLag' = ChannelSend(outQ, outLag, nextFrame + 1)[2]
    /\ UNCHANGED <<status, online, startPc, exitCause, startSaw, sigSub,
                   sigReady, startSend, outSub, curOut, written, inPos, curIn,
                   processed, stopPc, stopReason, stopAt>>
    /\ NetFrame

\* the login code marks the client online while the loop runs
Login ==
    /\ LoopRunning
    /\ ~online
    /\ online' = TRUE
    /\ UNCHANGED <<status, startPc, exitCause, startSaw, sigSub, sigReady,
                   startSend, outSub, outQ, outLag, nextFrame, curOut,
                   written, inPos, curIn, processed, stopPc, stopReason,
                   stopAt>>
    /\ NetFrame

\* a task calls stop(reason); the callers are interchangeable, so "s2" is the
\* one that calls second
StopCall(t) ==
    /\ stopPc[t] = "idle"
    /\ t = "s2" => stopPc["s1"] # "idle"
    /\ \E reason \in Reasons : stopReason' = [stopReason EXCEPT ![t] = reason]
    /\ stopAt' = [stopAt EXCEPT ![t] = (status = "Running")]
    /\ stopPc' = [stopPc EXCEPT ![t] = "send"]
    /\ UNCHANGED <<status, online, startPc, exitCause, startSaw, sigSub,
                   sigReady, startSend, outSub, outQ, outLag,
                   nextFrame, curOut, written, inPos, curIn, processed>>
    /\ NetFrame

\* stop, line 42
StopDisconnect(t) ==
    /\ stopPc[t] = "send"
    /\ sigReady' = Disconnect(Client).sigReady
    /\ UNCHANGED startSend
    /\ stopPc' = [stopPc EXCEPT ![t] = "store"]
    /\ UNCHANGED <<status, online, startPc, exitCause, startSaw, sigSub,
                   outSub, outQ, outLag, nextFrame, curOut, written,
                   inPos, curIn, processed, stopReason, stopAt>>
    /\ NetFrame

\* stop, line 43
StopStoreStatus(t) ==
    /\ stopPc[t] = "store"
    /\ status' = StoreStatus(Client, stopReason[t]).status
    /\ stopPc' = [stopPc EXCEPT ![t] = "clear"]
    /\ UNCHANGED <<online, startPc, exitCause, startSaw, sigSub, sigReady,
                   startSend, outSub, outQ, outLag, nextFrame, curOut,
                   written, inPos, curIn, processed, stopReason, stopAt>>
    /\ NetFrame

\* stop, line 44, then stop returns
StopClearOnline(t) ==
    /\ stopPc[t] = "clear"
    /\ online' = ClearOnline(Client).online
    /\ stopPc' = [stopPc EXCEPT ![t] = "done"]
    /\ UNCHANGED <<status, startPc, exitCause, startSaw, sigSub, sigReady,
                   startSend, outSub, outQ, outLag, nextFrame, curOut,
                   written, inPos, curIn, processed, stopReason, stopAt>>
    /\ NetFrame

NetNext ==
    \/ StartStoreRunning
    \/ NetLoopSubscribe
    \/ LoopReadFrame
    \/ IncomeDone
    \/ LoopReadUndecodable
    \/ LoopReadEnd
    \/ LoopRecvFrame
    \/ LoopRecvLagged
    \/ WriteOk
    \/ WriteErr
    \/ LoopDisconnect
    \/ StartDisconnect
    \/ StartGetStatus
    \/ StartStoreAfterLoop
    \/ Publish
    \/ Login
    \/ \E t \in Stoppers : StopCall(t)
    \/ \E t \in Stoppers : StopDisconnect(t)
    \/ \E t \in Stoppers : StopStoreStatus(t)
    \/ \E t \in Stoppers : StopClearOnline(t)

----------------------------------------------------------------------------
(* stop as one step: stop has no suspension point, so a caller that shares *)
(* the loop's thread runs lines 42-44 with no other task in between        *)

StopWhole(reason) ==
    /\ status' = Stop(Client, reason).status
    /\ online' = Stop(Client, reason).online
    /\ sigReady' = Stop(Client, reason).sigReady
    /\ lastStop' = reason
    /\ stopRun' = IF lastStop = reason /\ stopRun >= 1 THEN 2 ELSE 1
    /\ UNCHANGED off
    /\ UNCHANGED <<startPc, exitCause, startSaw, sigSub, startSend, outSub,
                   outQ, outLag, nextFrame, curOut, written, inPos, curIn,
                   processed, stopPc, stopReason, stopAt>>
    /\ UNCHANGED otherVars

StopNext ==
    \/ StartStoreRunning
    \/ NetLoopSubscribe
    \/ LoopReadFrame
    \/ IncomeDone
    \/ LoopReadUndecodable
    \/ LoopReadEnd
    \/ LoopRecvFrame
    \/ LoopRecvLagged
    \/ WriteOk
    \/ WriteErr
    \/ LoopDisconnect
    \/ StartDisconnect
    \/ StartGetStatus
    \/ StartStoreAfterLoop
    \/ Publish
    \/ Login
    \/ \E reason \in Reasons : StopWhole(reason)

----------------------------------------------------------------------------
(* stat_svc.rs: process_msf_force_offline, run by a task of its own *)

\* the frame that carries the offline response
OfflineRsp == 0

\* what a step of the task leaves alone
OffFrame ==
    /\ lastStop' = "none"
    /\ stopRun' = 0
    /\ UNCHANGED otherVars

\* lines 15-17: send_msg_offline_rsp(..).await.ok(), once the loop has
\* dispatched the request: the response goes to the channel, or the send fails
\* and the failure is dropped
OfflineSendRsp ==
    /\ off.pc = "idle"
    /\ processed # <<>>
    /\ IF outSub
          THEN /\ outQ' = ChannelSend(outQ, outLag, OfflineRsp)[1]
               /\ outLag' = ChannelSend(outQ, outLag, OfflineRsp)[2]
               /\ off' = [off EXCEPT !.pc = "disconnect", !.rsp = "ok"]
          ELSE /\ UNCHANGED <<outQ, outLag>>
               /\ off' = [off EXCEPT !.pc = "disconnect", !.rsp = "err"]
    /\ UNCHANGED <<status, online, startPc, exitCause, startSaw, sigSub,
                   sigReady, startSend, outSub, nextFrame, curOut, written,
                   inPos, curIn, processed, stopPc, stopReason, stopAt>>
    /\ OffFrame

\* line 18, stop(MsfOffline): net.rs line 42
OfflineStopDisconnect ==
    /\ off.pc = "disconnect"
    /\ sigReady' = Disconnect(Client).sigReady
    /\ off' = [off EXCEPT !.pc = "store"]
    /\ UNCHANGED <<status, online, startPc, exitCause, startSaw, sigSub,
                   startSend, outSub, outQ, outLag, nextFrame, curOut,
                   written, inPos, curIn, processed, stopPc, stopReason,
                   stopAt>>
    /\ OffFrame

\* line 18, stop(MsfOffline): net.rs line 43
OfflineStopStore ==
    /\ off.pc = "store"
    /\ status' = StoreStatus(Client, "MsfOffline").status
    /\ off' = [off EXCEPT !.pc = "clear"]
    /\ UNCHANGED <<online, startPc, exitCause, startSaw, sigSub, sigReady,
                   startSend, outSub, outQ, outLag, nextFrame, curOut,
                   written, inPos, curIn, processed, stopPc, stopReason,
                   stopAt>>
    /\ OffFrame

\* line 18, stop(MsfOffline): net.rs line 44
OfflineStopClear ==
    /\ off.pc = "clear"
    /\ online' = ClearOnline(Client).online
    /\ off' = [off EXCEPT !.pc = "handle"]
    /\ UNCHANGED <<status, startPc, exitCause, startSaw, sigSub, sigReady,
                   startSend, outSub, outQ, outLag, nextFrame, curOut,
                   written, inPos, curIn, processed, stopPc, stopReason,
                   stopAt>>
    /\ OffFrame

\* lines 19-24: the handler is invoked with QEvent::MSFOffline
OfflineHandle ==
    /\ off.pc = "handle"
    /\ off' = [off EXCEPT !.pc = "done", !.handled = off.handled + 1,
                          !.saw = [status |-> status, online |-> online]]
    /\ UNCHANGED <<status, online, startPc, exitCause, startSaw, sigSub,
                   sigReady, startSend, outSub, outQ, outLag, nextFrame,
                   curOut, written, inPos, curIn, processed, stopPc,
                   stopReason, stopAt>>
    /\ OffFrame

\* the client is logged in before the server forces it offline
LoginBefore == off.pc = "idle" /\ Login

OfflineNext ==
    \/ StartStoreRunning
    \/ NetLoopSubscribe
    \/ LoopReadFrame
    \/ IncomeDone
    \/ LoopReadUndecodable
    \/ LoopReadEnd
    \/ LoopRecvFrame
    \/ LoopRecvLagged
    \/ WriteOk
    \/ WriteErr
    \/ LoopDisconnect
    \/ StartDisconnect
    \/ StartGetStatus
    \/ StartStoreAfterLoop
    \/ Publish
    \/ LoginBefore
    \/ OfflineSendRsp
    \/ OfflineStopDisconnect
    \/ OfflineStopStore
    \/ OfflineStopClear
    \/ OfflineHandle

----------------------------------------------------------------------------
(* online_push.rs: the time-gate and the dedup cache *)

\* A timestamp is a 64-bit integer hi * 2^32 + (lo mod 2^32), kept as its
\* high word hi and its low word lo read as an i32.
Time(hi, lo) == [hi |-> hi, lo |-> lo]

\* `msg_time as i32`: the low word
AsI32(t) == t.lo

\* the 64-bit timestamp is before start_time (start_time >= 0)
Before(t) == t.hi < 0 \/ (t.hi = 0 /\ t.lo >= 0 /\ t.lo < StartTime)

\* timestamps the server may send: zero, around start_time, and values whose
\* low word differs from them
TimeVals == {Time(0, 0), Time(0, StartTime - 1), Time(0, StartTime),
             Time(-1, StartTime), Time(1, StartTime - 1)}

\* push_req_exists, lines 322-325: a msg_time of 0 is not filtered
ReqGate(msg_time) ==
    LET t == AsI32(msg_time) IN t # 0 /\ StartTime > t

\* a gate that lets a msg_time of 0 through, like push_req_exists
TransGateZeroExempt(msg_time) ==
    LET t == AsI32(msg_time) IN t # 0 /\ StartTime > t

\* push_trans_exists, lines 374-377
TransGate(msg_time) == StartTime > AsI32(msg_time)

\* the number of misses above which the cache is flushed (line 332)
MissLimit == 10

EmptyCache == [keys |-> {}, hits |-> 0, misses |-> 0]

\* cache_get(&key): a lookup counts a hit or a miss
CacheGet(c, key) ==
    IF key \in c.keys
        THEN [found |-> TRUE, cache |-> [c EXCEPT !.hits = c.hits + 1]]
        ELSE [found |-> FALSE, cache |-> [c EXCEPT !.misses = c.misses + 1]]

\* cache_set(key, ())
CacheSet(c, key) == [c EXCEPT !.keys = c.keys \cup {key}]

\* flush(): the entire cache is cleared
Flush(c) == [c EXCEPT !.keys = {}]

\* metrics that are never reset
KeepMetrics(c) == c

\* cache_reset_metrics()
ResetMetrics(c) == [c EXCEPT !.hits = 0, !.misses = 0]

\* a check that flushes one miss early
FlushNeededEarly(c) == c.misses >= MissLimit

\* lines 332 and 384: cache_misses().unwrap_or_default() > 10
FlushNeeded(c) == c.misses > MissLimit

\* lines 326-336 and 378-388: the part of the check under the write lock
LockedCheck(c, key) ==
    LET got == CacheGet(c, key)
        set == CacheSet(got.cache, key)
    IN  IF got.found
            THEN [exists |-> TRUE, cache |-> got.cache]
            ELSE [exists |-> FALSE,
                  cache |-> IF FlushNeeded(set) THEN ResetMetrics(Flush(set))
                            ELSE set]

KeyOf(info) == <<info.msg_seq, info.msg_uid>>

\* a check that takes the write lock and looks the key up before the
\* time-gate
PushReqExistsLockFirst(c, info) ==
    LET r == LockedCheck(c, KeyOf(info))
    IN  IF ReqGate(info.msg_time)
            THEN [exists |-> TRUE, cache |-> r.cache]
            ELSE r

\* push_req_exists
PushReqExists(c, info) ==
    IF ReqGate(info.msg_time)
        THEN [exists |-> TRUE, cache |-> c]
        ELSE LockedCheck(c, KeyOf(info))

\* push_trans_exists
PushTransExists(c, info) ==
    IF TransGate(info.msg_time)
        THEN [exists |-> TRUE, cache |-> c]
        ELSE LockedCheck(c, KeyOf(info))

\* process_push_req, lines 121-317: the handler invocations an admitted
\* message causes (a group mute by another member: one; a type the client
\* does not know: none)
ReqKinds == {"GroupMute", "Unknown"}

ReqEvents(kind) == IF kind = "GroupMute" THEN 1 ELSE 0

\* process_push_trans, lines 343-370: each of the three kinds of admitted
\* transaction is handed to the handler once
TransEvents == 1

NoDelivery == [fn |-> "none", id |-> 0, time |-> Time(0, 0), gated |-> FALSE,
               exists |-> FALSE, events |-> 0, calls |-> 0,
               afterGated |-> FALSE]


\* the two streams share no state: a behaviour follows one of them
PushInit(streams) ==
    /\ chan \in streams
    /\ reqCache = EmptyCache
    /\ transCache = EmptyCache
    /\ last = NoDelivery
    /\ pairCalls = -1
    /\ sinceReset = 0

\* message number id as the server sends it
Msg(id, time) ==
    [msg_seq |-> ((id - 1) % SeqSpan) + 1, msg_uid |-> id, msg_time |-> time]

\* The messages the server may send next. Keys matter only through being
\* cached or not and through being the key of the previous message, so of the
\* messages that are not cached the server sends the lowest (a new message,
\* or one the cache has forgotten), of those that are cached the lowest, or
\* the previous message again; a cached message passes the time-gate only
\* while the hit counter is below its bound.
Sendable(c, id) ==
    LET Cached(i) == KeyOf(Msg(i, Time(0, 0))) \in c.keys
    IN  \/ id = last.id
        \/ \A i \in 1..MaxKeys : i < id => Cached(i) = ~Cached(id)

Issue(c, info, gated) ==
    /\ Sendable(c, info.msg_uid)
    /\ (KeyOf(info) \in c.keys /\ ~gated) => c.hits < MaxHits

\* the history the claims are stated on
Record(fn, gated, info, events, res) ==
    /\ last' = [fn |-> fn, id |-> info.msg_uid, time |-> info.msg_time,
                gated |-> gated, exists |-> res.exists, events |-> events,
                calls |-> IF res.exists THEN 0 ELSE events,
                afterGated |-> /\ last.fn = fn
                               /\ last.id = info.msg_uid
                               /\ last.gated]
    /\ pairCalls' = IF /\ last.fn = fn
                       /\ last.id = info.msg_uid
                       /\ ~last.gated /\ ~gated
                       /\ ~last.exists
                       /\ last.events = 1 /\ events = 1
                       THEN last.calls + (IF res.exists THEN 0 ELSE events)
                       ELSE -1
    /\ sinceReset' = IF gated \/ res.exists THEN sinceReset
                     ELSE IF sinceReset + 1 > MissLimit THEN 0
                     ELSE sinceReset + 1

\* process_push_req, lines 117-318, for one message of the batch
DeliverReq ==
    /\ chan = "req"
    /\ \E id \in 1..MaxKeys, time \in TimeVals, kind \in ReqKinds :
          LET info == Msg(id, time)
              res == PushReqExists(reqCache, info)
          IN  /\ Issue(reqCache, info, ReqGate(time))
              /\ reqCache' = res.cache
              /\ Record("req", ReqGate(time), info, ReqEvents(kind), res)
    /\ UNCHANGED <<chan, transCache>>
    /\ UNCHANGED <<netVars, stopVars, callVars, groupVars, existsVars, taskVars>>

\* process_push_trans
DeliverTrans ==
    /\ chan = "trans"
    /\ \E id \in 1..MaxKeys, time \in TimeVals :
          LET info == Msg(id, time)
              res == PushTransExists(transCache, info)
          IN  /\ Issue(transCache, info, TransGate(time))
              /\ transCache' = res.cache
              /\ Record("trans", TransGate(time), info, TransEvents, res)
    /\ UNCHANGED <<chan, reqCache>>
    /\ UNCHANGED <<netVars, stopVars, callVars, groupVars, existsVars, taskVars>>

----------------------------------------------------------------------------
(* group_system_msg.rs: the rolling cache of group system messages *)

\* lines 36 and 53: self.start_time > msg_time as i32
GroupGate(msg_time) == StartTime > AsI32(msg_time)

\* the requests a batch may carry, and the batches: each of the two lists
\* holds no request or one
GroupSeqs == {1, 2}

GroupTimes == {Time(0, StartTime - 1), Time(0, StartTime), Time(-1, StartTime)}

Requests == [msg_seq : GroupSeqs, msg_time : GroupTimes]

RequestLists == {<<>>} \cup {<<r>> : r \in Requests}

Batches == [self_invited : RequestLists, join_group_requests : RequestLists]

EmptyBatch == [self_invited |-> <<>>, join_group_requests |-> <<>>]

\* .iter().find(|m| m.msg_seq == msg_seq) is Some(_)
Found(list, msg_seq) == \E i \in 1..Len(list) : list[i].msg_seq = msg_seq

\* self_invited_exists
SelfInvitedExists(cache, msg_seq, msg_time) ==
    IF GroupGate(msg_time) THEN TRUE ELSE Found(cache.self_invited, msg_seq)

\* join_group_request_exists
JoinGroupRequestExists(cache, msg_seq, msg_time) ==
    IF GroupGate(msg_time) THEN TRUE
    ELSE Found(cache.join_group_requests, msg_seq)

\* one pass of a for loop of process_group_system_messages (lines 9-19 and
\* 20-30): the request, whether it exists, and the handler invocations
Outcome(fn, request, exists) ==
    [fn |-> fn, msg_seq |-> request.msg_seq, msg_time |-> request.msg_time,
     exists |-> exists, calls |-> IF exists THEN 0 ELSE 1]

SelfInvitedPass(cache, msgs) ==
    [i \in 1..Len(msgs.self_invited) |->
        LET r == msgs.self_invited[i]
        IN  Outcome("self_invited", r,
                    SelfInvitedExists(cache, r.msg_seq, r.msg_time))]

JoinRequestPass(cache, msgs) ==
    [i \in 1..Len(msgs.join_group_requests) |->
        LET r == msgs.join_group_requests[i]
        IN  Outcome("join_group_request", r,
                    JoinGroupRequestExists(cache, r.msg_seq, r.msg_time))]

\* the msg_seqs of a batch, by the loop that handles them
SeqsOf(list) == {list[i].msg_seq : i \in 1..Len(list)}

MsgSeqs(msgs) ==
    [self_invited |-> SeqsOf(msgs.self_invited),
     join_group_request |-> SeqsOf(msgs.join_group_requests)]

\* the batches processed so far: the latest and the two before it
Seen(seen, msgs) ==
    IF Len(seen) < 3 THEN Append(seen, MsgSeqs(msgs))
    ELSE Tail(seen) \o <<MsgSeqs(msgs)>>

\* a cache that keeps what it held and adds the requests it did not hold
MergeIntoCache(cache, msgs) ==
    LET NotCached(cached, list) ==
            SelectSeq(list, LAMBDA r : ~Found(cached, r.msg_seq))
    IN  [self_invited |->
            cache.self_invited
                \o NotCached(cache.self_invited, msgs.self_invited),
         join_group_requests |->
            cache.join_group_requests
                \o NotCached(cache.join_group_requests,
                             msgs.join_group_requests)]

\* lines 31-32: *cache = msgs
ReplaceCache(cache, msgs) == msgs

GroupInit ==
    /\ groupCache = EmptyBatch
    /\ groupOut = <<>>
    /\ groupSeen = <<>>

\* process_group_system_messages run by one task from start to end
ProcessGroupSystemMessages ==
    /\ chan = "group"
    /\ \E msgs \in Batches :
          /\ groupOut' = SelfInvitedPass(groupCache, msgs)
                            \o JoinRequestPass(groupCache, msgs)
          /\ groupCache' = ReplaceCache(groupCache, msgs)
          /\ groupSeen' = Seen(groupSeen, msgs)
    /\ UNCHANGED <<netVars, stopVars, callVars, pushVars, existsVars, taskVars>>

PushNext ==
    \/ DeliverReq
    \/ DeliverTrans
    \/ ProcessGroupSystemMessages

----------------------------------------------------------------------------
(* Two tasks inside the dedup check of one stream *)

Tasks == {"a", "b"}

Other(t) == CHOOSE u \in Tasks : u # t

\* push_req_cache or push_trans_cache
CacheOf(fn) == IF fn = "trans" THEN transCache ELSE reqCache

SetCache(c) ==
    IF chan = "trans" THEN transCache' = c /\ reqCache' = reqCache
    ELSE reqCache' = c /\ transCache' = transCache

\* the time-gate of the stream's check
Gate(msg_time) ==
    IF chan = "trans" THEN TransGate(msg_time) ELSE ReqGate(msg_time)

\* the timestamps of the calls: before start_time, and start_time
CheckTimes == {Time(0, StartTime - 1), Time(0, StartTime)}

NoInfo == [msg_seq |-> 0, msg_uid |-> 0, msg_time |-> Time(0, 0)]

Inside(t) == ePc[t] # "idle"

ExistsInit ==
    /\ ePc = [t \in Tasks |-> "idle"]
    /\ eInfo = [t \in Tasks |-> NoInfo]
    /\ eLock = "none"
    /\ ePaired = FALSE
    /\ eRes = <<>>

\* The message of a call: the message the other task holds, while the hit
\* counter is below its bound, or for task "a" the lowest message that is
\* neither cached nor held by the other task.
Callable(t, id) ==
    LET c == CacheOf(chan)
        Cached(i) == KeyOf(Msg(i, Time(0, 0))) \in c.keys
        held == eInfo[Other(t)].msg_uid
    IN  \/ id = held /\ c.hits < MaxHits
        \/ /\ t = "a"
           /\ ~Cached(id)
           /\ \A i \in 1..MaxKeys : i < id => (Cached(i) \/ i = held)

\* the check returns: its locals are gone
Return(t, exists) ==
    /\ ePc' = [ePc EXCEPT ![t] = "idle"]
    /\ eInfo' = [eInfo EXCEPT ![t] = NoInfo]
    /\ eRes' = IF ePaired THEN Append(eRes, exists) ELSE eRes
    /\ UNCHANGED ePaired

\* a task enters push_req_exists / push_trans_exists; the tasks are
\* interchangeable, and "a" names the one that enters when both are outside
ExistsCall(t) ==
    /\ chan \in {"req", "trans"}
    /\ ePc[t] = "idle"
    /\ t = "b" => Inside("a")
    /\ \E id \in 1..MaxKeys, time \in CheckTimes :
          LET info == Msg(id, time)
              u == Other(t)
          IN  /\ Callable(t, id)
              /\ eInfo' = [eInfo EXCEPT ![t] = info]
              /\ ePaired' = (/\ Inside(u)
                             /\ eInfo[u].msg_uid = id
                             /\ KeyOf(info) \notin CacheOf(chan).keys
                             /\ ~Gate(time)
                             /\ ~Gate(eInfo[u].msg_time))
    /\ eRes' = <<>>
    /\ ePc' = [ePc EXCEPT ![t] = "gate"]
    /\ UNCHANGED eLock
    /\ UNCHANGED <<netVars, stopVars, callVars, pushVars, groupVars, taskVars>>

\* lines 322-325 and 374-377: the time-gate
ExistsGate(t) ==
    /\ ePc[t] = "gate"
    /\ IF Gate(eInfo[t].msg_time)
          THEN Return(t, TRUE)
          ELSE /\ ePc' = [ePc EXCEPT ![t] = "lock"]
               /\ UNCHANGED <<eInfo, eRes, ePaired>>
    /\ UNCHANGED eLock
    /\ UNCHANGED <<netVars, stopVars, callVars, pushVars, groupVars, taskVars>>

\* lines 326 and 378: .write().await
ExistsLock(t) ==
    /\ ePc[t] = "lock"
    /\ eLock = "none"
    /\ eLock' = t
    /\ ePc' = [ePc EXCEPT ![t] = "get"]
    /\ UNCHANGED <<eInfo, eRes, ePaired>>
    /\ UNCHANGED <<netVars, stopVars, callVars, pushVars, groupVars, taskVars>>

\* lines 328-330 and 380-382: cache_get; a hit returns true and drops the
\* guard
ExistsGet(t) ==
    /\ ePc[t] = "get"
    /\ eLock = t
    /\ LET got == CacheGet(CacheOf(chan), KeyOf(eInfo[t]))
       IN  /\ SetCache(got.cache)
           /\ IF got.found
                 THEN /\ Return(t, TRUE)
                      /\ eLock' = "none"
                 ELSE /\ ePc' = [ePc EXCEPT ![t] = "set"]
                      /\ UNCHANGED <<eInfo, eRes, ePaired, eLock>>
    /\ UNCHANGED <<chan, last, pairCalls, sinceReset>>
    /\ UNCHANGED <<netVars, stopVars, callVars, groupVars, taskVars>>

\* lines 331 and 383: cache_set
ExistsSet(t) ==
    /\ ePc[t] = "set"
    /\ eLock = t
    /\ SetCache(CacheSet(CacheOf(chan), KeyOf(eInfo[t])))
    /\ ePc' = [ePc EXCEPT ![t] = "flush"]
    /\ UNCHANGED <<eInfo, eRes, eLock, ePaired>>
    /\ UNCHANGED <<chan, last, pairCalls, sinceReset>>
    /\ UNCHANGED <<netVars, stopVars, callVars, groupVars, taskVars>>

\* lines 332-336 and 384-388: the flush when the misses exceed the limit;
\* false is returned and the guard dropped
ExistsFlush(t) ==
    /\ ePc[t] = "flush"
    /\ eLock = t
    /\ LET c == CacheOf(chan)
       IN  SetCache(IF FlushNeeded(c) THEN ResetMetrics(Flush(c)) ELSE c)
    /\ Return(t, FALSE)
    /\ eLock' = "none"
    /\ UNCHANGED <<chan, last, pairCalls, sinceReset>>
    /\ UNCHANGED <<netVars, stopVars, callVars, groupVars, taskVars>>

ExistsNext ==
    \/ \E t \in Tasks : ExistsCall(t)
    \/ \E t \in Tasks : ExistsGate(t)
    \/ \E t \in Tasks : ExistsLock(t)
    \/ \E t \in Tasks : ExistsGet(t)
    \/ \E t \in Tasks : ExistsSet(t)
    \/ \E t \in Tasks : ExistsFlush(t)

----------------------------------------------------------------------------
(* Two tasks inside process_group_system_messages *)

\* the batches of the calls: one request at most, with a timestamp of
\* CheckTimes
TaskBatches ==
    {b \in Batches :
        /\ Len(b.self_invited) + Len(b.join_group_requests) <= 1
        /\ \A i \in 1..Len(b.self_invited) :
              b.self_invited[i].msg_time \in CheckTimes
        /\ \A i \in 1..Len(b.join_group_requests) :
              b.join_group_requests[i].msg_time \in CheckTimes}

\* the requests of a batch that pass the time-gate, as <<list, msg_seq>>
OnTime(msgs) ==
    {<<"self_invited", msgs.self_invited[i].msg_seq>> :
        i \in {j \in 1..Len(msgs.self_invited) :
                  ~GroupGate(msgs.self_invited[j].msg_time)}}
    \cup
    {<<"join_group_request", msgs.join_group_requests[i].msg_seq>> :
        i \in {j \in 1..Len(msgs.join_group_requests) :
                  ~GroupGate(msgs.join_group_requests[j].msg_time)}}

\* those of them the cache does not hold
NewIn(cache, msgs) ==
    {k \in OnTime(msgs) :
        ~Found(IF k[1] = "self_invited" THEN cache.self_invited
               ELSE cache.join_group_requests, k[2])}

Running(t) == gPc[t] \notin {"idle", "done"}

TaskInit ==
    /\ gPc = [t \in Tasks |-> "idle"]
    /\ gBatch = [t \in Tasks |-> EmptyBatch]
    /\ gOut = [t \in Tasks |-> <<>>]
    /\ gNew = [t \in Tasks |-> {}]
    /\ gRace = {}

\* a task enters process_group_system_messages
GroupCall(t) ==
    /\ chan = "group"
    /\ gPc[t] \in {"idle", "done"}
    /\ \E msgs \in TaskBatches :
          /\ gBatch' = [gBatch EXCEPT ![t] = msgs]
          /\ gNew' = [gNew EXCEPT ![t] = NewIn(groupCache, msgs)]
          /\ gRace' = IF Running(Other(t))
                         THEN gNew[Other(t)] \cap NewIn(groupCache, msgs)
                         ELSE {}
    /\ gOut' = [gOut EXCEPT ![t] = <<>>]
    /\ gPc' = [gPc EXCEPT ![t] = "self_invited"]
    /\ UNCHANGED <<netVars, stopVars, callVars, pushVars, groupVars, existsVars>>

\* lines 9-19: the loop over msgs.self_invited (at most one request)
GroupSelfInvited(t) ==
    /\ gPc[t] = "self_invited"
    /\ gOut' = [gOut EXCEPT ![t] = SelfInvitedPass(groupCache, gBatch[t])]
    /\ gPc' = [gPc EXCEPT ![t] = "join_group_requests"]
    /\ UNCHANGED <<gBatch, gNew, gRace>>
    /\ UNCHANGED <<netVars, stopVars, callVars, pushVars, groupVars, existsVars>>

\* lines 20-30: the loop over msgs.join_group_requests (at most one request)
GroupJoinRequests(t) ==
    /\ gPc[t] = "join_group_requests"
    /\ gOut' = [gOut EXCEPT
                  ![t] = gOut[t] \o JoinRequestPass(groupCache, gBatch[t])]
    /\ gPc' = [gPc EXCEPT ![t] = "write"]
    /\ UNCHANGED <<gBatch, gNew, gRace>>
    /\ UNCHANGED <<netVars, stopVars, callVars, pushVars, groupVars, existsVars>>

\* lines 31-32: *cache = msgs under the write lock
GroupWriteCache(t) ==
    /\ gPc[t] = "write"
    /\ groupCache' = ReplaceCache(groupCache, gBatch[t])
    /\ gPc' = [gPc EXCEPT ![t] = "done"]
    /\ UNCHANGED <<gBatch, gOut, gNew, gRace, groupOut, groupSeen>>
    /\ UNCHANGED <<netVars, stopVars, callVars, pushVars, existsVars>>

GroupNext ==
    \/ \E t \in Tasks : GroupCall(t)
    \/ \E t \in Tasks : GroupSelfInvited(t)
    \/ \E t \in Tasks : GroupJoinRequests(t)
    \/ \E t \in Tasks : GroupWriteCache(t)

----------------------------------------------------------------------------
(* Functions applied to an argument *)

CallInit(fn, inputs) ==
    /\ callee = fn
    /\ input \in inputs
    /\ output = <<>>
    /\ work = [pc |-> "idle"]

\* all sequences over S of length at most n
RECURSIVE SeqsUpTo(_, _)
SeqsUpTo(S, n) ==
    IF n = 0 THEN {<<>>}
    ELSE LET shorter == SeqsUpTo(S, n - 1)
         IN  shorter \cup {Append(q, x) : q \in shorter, x \in S}

RECURSIVE Flatten(_)
Flatten(lists) ==
    IF lists = <<>> THEN <<>> ELSE Head(lists) \o Flatten(Tail(lists))

----------------------------------------------------------------------------
(* online_push.rs: parse_group_message *)

\* an Elem without content and the contents the part that arrived k-th
\* carries
NoElem == [elem |-> 0]

ElemsOf(k, shape) ==
    IF shape = "empty" THEN <<>>
    ELSE IF shape = "one" THEN <<[elem |-> 10 * k + 1]>>
    ELSE <<[elem |-> 10 * k + 1], NoElem, [elem |-> 10 * k + 2]>>

Shapes == {"empty", "one", "gap"}

\* the GroupMessagePart that arrived k-th: its scalars are its own
Part(k, index, shape) ==
    [pkg_index |-> index, group_code |-> k, group_name |-> k,
     group_card |-> k, from_uin |-> k, time |-> k, seq |-> k, rand |-> k,
     elems |-> ElemsOf(k, shape)]

PartLists ==
    {[k \in 1..Len(c) |-> Part(k, c[k][1], c[k][2])] :
        c \in SeqsUpTo((0..MaxIndex) \X Shapes, MaxParts)}

\* a reassembly that keeps the order of arrival
SortInArrivalOrder(parts) == parts

RECURSIVE InsertPart(_, _)
InsertPart(sorted, p) ==
    IF sorted = <<>> THEN <<p>>
    ELSE IF p.pkg_index < Head(sorted).pkg_index THEN <<p>> \o sorted
    ELSE <<Head(sorted)>> \o InsertPart(Tail(sorted), p)

RECURSIVE SortedParts(_)
SortedParts(parts) ==
    IF parts = <<>> THEN <<>>
    ELSE InsertPart(SortedParts(SubSeq(parts, 1, Len(parts) - 1)),
                    parts[Len(parts)])

\* lines 32 and 76: parts.sort_by(|a, b| a.pkg_index.cmp(&b.pkg_index)),
\* a stable sort
SortByIndex(parts) == SortedParts(parts)

\* a collection that keeps the elems without content
PresentOrNot(elems) == elems

\* filter_map(|e| e.elem): the contents of the elems that have one
Present(elems) == SelectSeq(elems, LAMBDA e : e.elem # 0)

\* MessageChain::from(Vec<Elem>): a chain of every element it is given, in
\* the order given, the ones without content among them
MessageChainFrom(elems) == [i \in 1..Len(elems) |-> elems[i]]

\* parts.first().map(|p| p.field).unwrap_or_default()
FirstOr(parts, field) == IF parts = <<>> THEN 0 ELSE parts[1][field]

\* lines 28-70: the first definition
ParseGroupMessageA(parts_in) ==
    LET parts == SortByIndex(parts_in)
    IN  [seqs |-> [i \in 1..Len(parts) |-> parts[i].seq],
         rands |-> [i \in 1..Len(parts) |-> parts[i].rand],
         group_code |-> FirstOr(parts, "group_code"),
         group_name |-> FirstOr(parts, "group_name"),
         group_card |-> FirstOr(parts, "group_card"),
         from_uin |-> FirstOr(parts, "from_uin"),
         time |-> FirstOr(parts, "time"),
         elements |->
            Flatten([i \in 1..Len(parts) |-> Present(parts[i].elems)])]

\* lines 82-99: the loop of the second definition from part i on; m holds
\* the message built so far
RECURSIVE PartLoop(_, _, _, _)
PartLoop(parts, i, is_first_part, m) ==
    IF i > Len(parts) THEN m
    ELSE LET p == parts[i]
             scalars == IF is_first_part
                           THEN [m EXCEPT !.group_code = p.group_code,
                                          !.group_name = p.group_name,
                                          !.group_card = p.group_card,
                                          !.from_uin = p.from_uin,
                                          !.time = p.time]
                           ELSE m
         IN  PartLoop(parts, i + 1, FALSE,
                      [scalars EXCEPT !.seqs = Append(m.seqs, p.seq),
                                      !.rands = Append(m.rands, p.rand),
                                      !.elements = m.elements \o p.elems])

\* lines 72-114: the second definition
ParseGroupMessageB(parts_in) ==
    LET parts == SortByIndex(parts_in)
        m == PartLoop(parts, 1, TRUE,
                      [seqs |-> <<>>, rands |-> <<>>, group_code |-> 0,
                       group_name |-> 0, group_card |-> 0, from_uin |-> 0,
                       time |-> 0, elements |-> <<>>])
    IN  [m EXCEPT !.elements = MessageChainFrom(m.elements)]

\* a call of the first definition
ParseFirstDefinition ==
    /\ callee = "parse_group_message"
    /\ output' = <<[by |-> "A", msg |-> ParseGroupMessageA(input)]>>
    /\ UNCHANGED <<callee, input, work>>
    /\ UNCHANGED <<netVars, stopVars, pushVars, groupVars, existsVars,
                   taskVars>>

\* a call of the second definition
ParseSecondDefinition ==
    /\ callee = "parse_group_message"
    /\ output' = <<[by |-> "B", msg |-> ParseGroupMessageB(input)]>>
    /\ UNCHANGED <<callee, input, work>>
    /\ UNCHANGED <<netVars, stopVars, pushVars, groupVars, existsVars,
                   taskVars>>

ParseNext ==
    \/ ParseFirstDefinition
    \/ ParseSecondDefinition

----------------------------------------------------------------------------
(* wtlogin/mod.rs: LoginResponse::decode *)

\* the tags decode looks up in tlv_map, and those it looks up in the block
\* nested in 0x119
TopTags == {"0x119", "0x161", "0x403", "0x402", "0x104", "0x192", "0x165",
            "0x546", "0x174", "0x178", "0x204", "0x17e", "0x146"}

NestedTags == {"0x108", "0x11a", "0x512", "0x134", "0x16a", "0x133", "0x106",
               "0x10a", "0x10d", "0x10e", "0x103", "0x120", "0x143", "0x305",
               "0x322"}

\* status values: each arm of the match, and three it does not name
StatusVals == {0, 1, 2, 40, 160, 161, 162, 204, 239, 255}

\* the blocks nested in 0x119: empty, one tag, or all of them
NestedBlocks == {{}} \cup {{t} : t \in NestedTags} \cup {NestedTags}

\* the arguments: a status, the tags of tlv_map (at most MaxTags of them)
\* and what decode_t119 finds in the value of 0x119
DecodeInputs ==
    {[status |-> st, tlv_map |-> m, t119 |-> n] :
        st \in StatusVals,
        m \in {x \in SUBSET TopTags : Cardinality(x) <= MaxTags},
        n \in NestedBlocks}

\* the arguments whose nested block is that of a 0x119 that is present
WellFormedInputs ==
    {i \in DecodeInputs : "0x119" \notin i.tlv_map => i.t119 = {}}

\* map.remove(&tag): Some(value of the tag) or None
Remove(map, tag) == IF tag \in map THEN tag ELSE "none"

\* a lookup of 0x119 that falls back to an empty block
T119OrEmpty(in) ==
    [ok |-> TRUE, map |-> IF "0x119" \in in.tlv_map THEN in.t119 ELSE {}]

\* lines 127-130: 0x119 is removed and decoded, or the call fails
T119(in) ==
    IF "0x119" \in in.tlv_map THEN [ok |-> TRUE, map |-> in.t119]
    ELSE [ok |-> FALSE, map |-> {}]

\* a phone number that does not look at 0x174
SmsPhoneAlways(t174, t178) == t178

\* lines 173-181: sms_phone
SmsPhone(t174, t178) == IF t174 # "none" THEN t178 ELSE "none"

Variant(name, fields) == [variant |-> name, fields |-> fields]

NoFields == [none |-> "none"]

\* lines 131-151
LoginSuccess(m, t119) ==
    [rollback_sig |-> Remove(m, "0x161"),
     rand_seed |-> Remove(m, "0x403"),
     ksid |-> Remove(t119, "0x108"),
     account_info |-> Remove(t119, "0x11a"),
     t512 |-> Remove(t119, "0x512"),
     t402 |-> Remove(m, "0x402"),
     wt_session_ticket_key |-> Remove(t119, "0x134"),
     srm_token |-> Remove(t119, "0x16a"),
     t133 |-> Remove(t119, "0x133"),
     encrypt_a1 |-> Remove(t119, "0x106"),
     tgt |-> Remove(t119, "0x10a"),
     tgt_key |-> Remove(t119, "0x10d"),
     user_st_key |-> Remove(t119, "0x10e"),
     user_st_web_sig |-> Remove(t119, "0x103"),
     s_key |-> Remove(t119, "0x120"),
     d2 |-> Remove(t119, "0x143"),
     d2key |-> Remove(t119, "0x305"),
     device_token |-> Remove(t119, "0x322")]

\* lines 153-168
LoginNeedCaptcha(m) ==
    [t104 |-> Remove(m, "0x104"),
     verify_url |-> Remove(m, "0x192"),
     image_captcha |-> Remove(m, "0x165"),
     t547 |-> Remove(m, "0x546")]

\* lines 170-195
LoginDeviceLocked(m) ==
    [sms_phone |-> SmsPhone(Remove(m, "0x174"), Remove(m, "0x178")),
     verify_url |-> Remove(m, "0x204"),
     message |-> Remove(m, "0x17e"),
     rand_seed |-> Remove(m, "0x403"),
     t104 |-> Remove(m, "0x104"),
     t174 |-> Remove(m, "0x174"),
     t402 |-> Remove(m, "0x402")]

\* lines 197-201
LoginDeviceLockLogin(m) ==
    [t104 |-> Remove(m, "0x104"),
     t402 |-> Remove(m, "0x402"),
     rand_seed |-> Remove(m, "0x403")]

\* lines 202-216: message is read from 0x146 or stays ""
LoginUnknownStatus(st, m) ==
    [status |-> st,
     tlv_map |-> m \ {"0x146"},
     message |-> IF "0x146" \in m THEN "0x146" ELSE ""]

\* lines 120-219
Decode(in) ==
    LET m == in.tlv_map
    IN  CASE in.status = 0 ->
                IF T119(in).ok
                    THEN Variant("Success", LoginSuccess(m, T119(in).map))
                    ELSE [variant |-> "Err", fields |-> NoFields,
                          error |-> "missing 0x119"]
          [] in.status = 2 -> Variant("NeedCaptcha", LoginNeedCaptcha(m))
          [] in.status = 40 -> Variant("AccountFrozen", NoFields)
          [] in.status \in {160, 239} ->
                Variant("DeviceLocked", LoginDeviceLocked(m))
          [] in.status = 162 -> Variant("TooManySMSRequest", NoFields)
          [] in.status = 204 ->
                Variant("DeviceLockLogin", LoginDeviceLockLogin(m))
          [] OTHER ->
                Variant("UnknownStatus", LoginUnknownStatus(in.status, m))

\* a call of LoginResponse::decode
DecodeCall ==
    /\ callee = "decode"
    /\ output = <<>>
    /\ output' = <<Decode(input)>>
    /\ UNCHANGED <<callee, input, work>>
    /\ UNCHANGED <<netVars, stopVars, pushVars, groupVars, existsVars,
                   taskVars>>

DecodeNext == DecodeCall

----------------------------------------------------------------------------
(* wtlogin/mod.rs: the values LoginResponse::decode reads byte by byte *)

\* the tags whose value decode reads into: 0x165 (lines 158-166), 0x178
\* (lines 174-178) and 0x146 (lines 206-210)
ParsedTags == {"0x165", "0x178", "0x146"}

\* values of up to MaxValueLen bytes
ByteStrings == SeqsUpTo({0, 1}, MaxValueLen)

\* a status, a map holding one of the parsed tags, with or without 0x174,
\* and the bytes of that tag's value
ByteInputs ==
    {[status |-> st, tlv_map |-> {t} \cup x, t119 |-> {}, bytes |-> b] :
        st \in StatusVals, t \in ParsedTags, x \in SUBSET {"0x174"},
        b \in ByteStrings}

\* a reader over what is left of a value; a read past the end panics
Reader(ok, val, rest) == [ok |-> ok, val |-> val, rest |-> rest]

Drop(b, n) == SubSeq(b, n + 1, Len(b))

\* Buf::get_u16
GetU16(r) ==
    IF ~r.ok \/ Len(r.rest) < 2 THEN Reader(FALSE, 0, <<>>)
    ELSE Reader(TRUE, r.rest[1] * 256 + r.rest[2], Drop(r.rest, 2))

\* Buf::copy_to_bytes(n) and Buf::advance(n)
Advance(r, n) ==
    IF ~r.ok \/ Len(r.rest) < n THEN Reader(FALSE, 0, <<>>)
    ELSE Reader(TRUE, n, Drop(r.rest, n))

\* BinaryReader::read_string_short: a u16 length, then that many bytes
ReadStringShort(r) ==
    LET n == GetU16(r) IN Advance(n, n.val)

\* lines 158-166: the closure that builds image_captcha
ReadImageCaptcha(b) ==
    LET sign_len == GetU16(Reader(TRUE, 0, b))
        skipped == GetU16(sign_len)
    IN  Advance(skipped, sign_len.val)

\* lines 174-178: the closure that builds sms_phone
ReadSmsPhone(b) == ReadStringShort(ReadStringShort(Reader(TRUE, 0, b)))

\* lines 207-209: the title and the message of 0x146
ReadMessage(b) ==
    ReadStringShort(ReadStringShort(Advance(Reader(TRUE, 0, b), 4)))

\* the call panics while it reads a value
Aborts(in) ==
    LET m == in.tlv_map
    IN  CASE in.status = 0 -> FALSE
          [] in.status = 2 ->
                "0x165" \in m /\ ~ReadImageCaptcha(in.bytes).ok
          [] in.status = 40 -> FALSE
          [] in.status \in {160, 239} ->
                "0x174" \in m /\ "0x178" \in m /\ ~ReadSmsPhone(in.bytes).ok
          [] in.status = 162 -> FALSE
          [] in.status = 204 -> FALSE
          [] OTHER -> "0x146" \in m /\ ~ReadMessage(in.bytes).ok

\* a call of LoginResponse::decode on a map whose values are bytes
DecodeBytesCall ==
    /\ callee = "decode_bytes"
    /\ output = <<>>
    /\ output' = IF Aborts(input) THEN <<Variant("Panic", NoFields)>>
                 ELSE <<Decode(input)>>
    /\ UNCHANGED <<callee, input, work>>
    /\ UNCHANGED <<netVars, stopVars, pushVars, groupVars, existsVars,
                   taskVars>>

DecodeBytesNext == DecodeBytesCall

----------------------------------------------------------------------------
(* wtlogin/mod.rs: t546_to_t547 *)

\* Sha256::digest(n.to_bytes_be()) on the values searched: a function
\* without collisions on 0..10 whose value is not its argument
Sha256(n) == (7 * n + 3) % 11

\* the digests have tgt_len 32; a tgt of another length equals none of them
Challenges ==
    [a : {0, 1}, typ : {1, 2, 3}, c : {4}, flag : {0, 1, 5}, e : {6},
     f : {7}, src : 0..MaxN, tgt : {Sha256(n) : n \in 0..MaxN},
     tgt_len : {16, 32}, cpy : {8}]

\* a search that begins one above src
FirstCandidateAbove(src) == src + 1

\* line 237: tmp = BigUint::from_bytes_be(&src)
FirstCandidate(src) == src

\* lines 223-235: the fields are read; a type-2 challenge with a 32-byte tgt
\* is searched (lines 236-239), any other goes to the writer
PowRead ==
    /\ callee = "t546_to_t547"
    /\ work.pc = "idle"
    /\ output = <<>>
    /\ work' = IF input.typ = 2 /\ input.tgt_len = 32
                  THEN [pc |-> "search", ok |-> input.flag # 0,
                        tmp |-> FirstCandidate(input.src), cnt |-> 0,
                        hash |-> Sha256(FirstCandidate(input.src)),
                        dst |-> <<>>, elp |-> 0]
                  ELSE [pc |-> "write", ok |-> input.flag # 0,
                        tmp |-> 0, cnt |-> 0, hash |-> 0,
                        dst |-> <<>>, elp |-> 0]
    /\ UNCHANGED <<callee, input, output>>
    /\ UNCHANGED <<netVars, stopVars, pushVars, groupVars, existsVars,
                   taskVars>>

\* lines 240-244: one pass of the while loop (the values above MaxN are
\* not followed)
PowIterate ==
    /\ work.pc = "search"
    /\ work.hash # input.tgt
    /\ work.tmp < MaxN
    /\ work' = [work EXCEPT !.tmp = work.tmp + 1,
                            !.hash = Sha256(work.tmp + 1),
                            !.cnt = work.cnt + 1]
    /\ UNCHANGED <<callee, input, output>>
    /\ UNCHANGED <<netVars, stopVars, pushVars, groupVars, existsVars,
                   taskVars>>

\* lines 240 and 245-247: the loop ends; elp is what the clock says
PowSolved ==
    /\ work.pc = "search"
    /\ work.hash = input.tgt
    /\ \E elp \in {0, 1} :
          work' = [work EXCEPT !.pc = "write", !.ok = TRUE,
                               !.dst = <<work.tmp>>, !.elp = elp]
    /\ UNCHANGED <<callee, input, output>>
    /\ UNCHANGED <<netVars, stopVars, pushVars, groupVars, existsVars,
                   taskVars>>

\* lines 249-264: the payload
T547(in, w) ==
    [a |-> in.a, typ |-> in.typ, c |-> in.c,
     flag |-> IF w.ok THEN 1 ELSE 0,
     e |-> in.e, f |-> in.f, src |-> in.src, tgt |-> in.tgt,
     tgt_len |-> in.tgt_len, cpy |-> in.cpy,
     extended |-> IF w.ok THEN <<[dst |-> w.dst, elp |-> w.elp,
                                 cnt |-> w.cnt]>>
                  ELSE <<>>]

PowWrite ==
    /\ work.pc = "write"
    /\ output' = <<T547(input, work)>>
    /\ work' = [pc |-> "idle"]
    /\ UNCHANGED <<callee, input>>
    /\ UNCHANGED <<netVars, stopVars, pushVars, groupVars, existsVars,
                   taskVars>>

PowNext ==
    \/ PowRead
    \/ PowIterate
    \/ PowSolved
    \/ PowWrite

----------------------------------------------------------------------------
(* net.rs, lines 54-58: the framing of LengthDelimitedCodec *)

\* the codec's max_frame_length, left at the builder's default of 8 MiB
MaxFrameLen == 8388608

\* line 55: length_field_length(4)
LengthFieldLen == 4

\* line 56: length_adjustment(-4)
LengthAdjustment == -4

\* n bytes of content: the codec copies them, so a run of n bytes of one
\* value stands for any content
Bytes(n, fill) == [len |-> n, fill |-> IF n = 0 THEN 0 ELSE fill]

\* the length field: 4 bytes, big-endian
PutUint(n) ==
    <<(n \div 16777216) % 256, (n \div 65536) % 256, (n \div 256) % 256,
      n % 256>>

GetUint(head) ==
    head[1] * 16777216 + head[2] * 65536 + head[3] * 256 + head[4]

\* the payloads handed to the encoder: short ones and ones around the limits
PayloadLens ==
    (0..MaxBody) \cup {MaxFrameLen - 5, MaxFrameLen - 4, MaxFrameLen - 3,
                       MaxFrameLen, MaxFrameLen + 1}

Payloads == {Bytes(n, fill) : n \in PayloadLens, fill \in {1, 255}}

\* the bytes a peer may send: any of these length fields, then some bytes
Heads == {<<b1, b2, 0, b4>> : b1 \in {0, 1}, b2 \in {0, 128}, b4 \in 0..(4 + MaxBody)}

RawFrames ==
    {[head |-> h, body |-> Bytes(n, fill)] :
        h \in Heads, n \in 0..MaxBody, fill \in {1, 255}}

FrameInputs ==
    {[kind |-> "payload", payload |-> q, frame |-> <<>>] : q \in Payloads}
    \cup {[kind |-> "raw", payload |-> Bytes(0, 0), frame |-> <<r>>] :
             r \in RawFrames}

\* an encoder that writes the payload length as it is
EncodedLengthPlain(n) == n

\* the encoder's length field: the payload length less the adjustment
EncodedLength(n) == n - LengthAdjustment

\* the encoder: a payload above max_frame_length is refused
Encode(payload) ==
    IF payload.len > MaxFrameLen
        THEN [ok |-> FALSE, error |-> "frame size too big", frame |-> <<>>]
        ELSE [ok |-> TRUE, error |-> "",
              frame |-> <<[head |-> PutUint(EncodedLength(payload.len)),
                           body |-> payload]>>]

\* the decoder: a length field above max_frame_length or below the
\* adjustment is an error; the payload is the adjusted number of bytes after
\* the length field, once they have all arrived
DecodeFrame(frame) ==
    LET n == GetUint(frame.head)
        need == n + LengthAdjustment
    IN  IF n > MaxFrameLen
            THEN [ok |-> FALSE, error |-> "frame size too big",
                  payload |-> Bytes(0, 0)]
        ELSE IF need < 0
            THEN [ok |-> FALSE, error |-> "length overflows after adjustment",
                  payload |-> Bytes(0, 0)]
        ELSE IF frame.body.len < need
            THEN [ok |-> FALSE, error |-> "bytes remaining on stream",
                  payload |-> Bytes(0, 0)]
        ELSE [ok |-> TRUE, error |-> "",
              payload |-> Bytes(need, frame.body.fill)]

\* write_half.send(payload): the frame goes onto the stream, or the send
\* fails
FrameEncode ==
    /\ callee = "frame"
    /\ input.kind = "payload"
    /\ work.pc = "idle"
    /\ output = <<>>
    /\ LET r == Encode(input.payload)
       IN  IF r.ok
              THEN /\ work' = [pc |-> "sent", frame |-> r.frame[1]]
                   /\ UNCHANGED output
              ELSE /\ output' = <<[ok |-> FALSE, error |-> r.error,
                                   payload |-> Bytes(0, 0)]>>
                   /\ UNCHANGED work
    /\ UNCHANGED <<callee, input>>
    /\ UNCHANGED <<netVars, stopVars, pushVars, groupVars, existsVars,
                   taskVars>>

\* read_half.next() on the frame sent
FrameDecodeSent ==
    /\ callee = "frame"
    /\ work.pc = "sent"
    /\ output' = <<DecodeFrame(work.frame)>>
    /\ work' = [pc |-> "idle"]
    /\ UNCHANGED <<callee, input>>
    /\ UNCHANGED <<netVars, stopVars, pushVars, groupVars, existsVars,
                   taskVars>>

\* read_half.next() on bytes of the peer, followed by the end of the stream
FrameDecodeRaw ==
    /\ callee = "frame"
    /\ input.kind = "raw"
    /\ output = <<>>
    /\ output' = <<DecodeFrame(input.frame[1])>>
    /\ UNCHANGED <<callee, input, work>>
    /\ UNCHANGED <<netVars, stopVars, pushVars, groupVars, existsVars,
                   taskVars>>

FrameNext ==
    \/ FrameEncode
    \/ FrameDecodeSent
    \/ FrameDecodeRaw

----------------------------------------------------------------------------
(* online_push.rs, lines 116-319: process_push_req on a batch *)

\* i_type values with a branch under msg_type 732 (lines 127 and 147):
\* 0x0c, 0x10, 0x11, 0x14, 0x15
ITypes == {12, 16, 17, 20, 21}

\* sub_msg_type values with a branch under msg_type 528 (lines 187-310):
\* 0x8A, 0x8B, 0xB3, 0xD4, 0x122, 0x123, 0x27, 0x44
SubMsgTypes == {138, 139, 179, 212, 290, 291, 39, 68}

\* bytes of v_msg read before `match i_type` (lines 123-125): a u32 and two
\* u8
HeaderLen == 6

\* the byte of v_msg that holds i_type
ITypeAt == 5

\* msg_type values: the two with a branch, and one without
MsgTypes == {732, 528, 1}

\* the handler events the body of a message describes, by the branch that
\* reads it
BodyEvents(msg_type, code) ==
    IF msg_type = 732 /\ code = 12
        THEN {<<>>, <<"GroupMute">>}
    ELSE IF msg_type = 732 /\ code \in ITypes
        THEN {<<>>, <<"GroupMessageRecall">>,
              <<"GroupMessageRecall", "GroupMessageRecall">>}
    ELSE IF msg_type = 528 /\ code \in {138, 139}
        THEN {<<>>, <<"FriendMessageRecall">>,
              <<"FriendMessageRecall", "FriendMessageRecall">>}
    ELSE IF msg_type = 528 /\ code = 179
        THEN {<<>>, <<"NewFriend">>}
    ELSE IF msg_type = 528 /\ code = 212
        THEN {<<"GroupLeave">>}
    ELSE IF msg_type = 528 /\ code \in {290, 291}
        THEN {<<>>, <<"FriendPoke">>}
    ELSE IF msg_type = 528 /\ code = 39
        THEN {<<>>, <<"GroupNameUpdate">>, <<"DeleteFriend">>,
              <<"GroupNameUpdate", "DeleteFriend">>}
    ELSE {<<>>}

\* v_msg: how many of its header bytes are there (msg_type 732), whether it
\* is a MsgType0x210 (msg_type 528), the i_type or sub_msg_type it carries
\* (-1: the byte is not there), whether the rest can be read, and the events
\* the rest describes
VMsg(len, jce, code, intact, events) ==
    [len |-> len, jce |-> jce, code |-> code, intact |-> intact,
     events |-> events]

\* the codes tried: the ones with a branch, and one without
Codes(msg_type) ==
    IF msg_type = 732 THEN ITypes \cup {13}
    ELSE IF msg_type = 528 THEN SubMsgTypes \cup {0}
    ELSE {-1}

VMsgs(msg_type) ==
    IF msg_type = 732
        THEN {VMsg(ITypeAt - 1, FALSE, -1, FALSE, <<>>)}
             \cup {VMsg(ITypeAt, FALSE, c, FALSE, <<>>) : c \in Codes(732)}
             \cup {VMsg(HeaderLen, FALSE, c, FALSE, <<>>) : c \in Codes(732)}
             \cup UNION {{VMsg(HeaderLen, FALSE, c, TRUE, ev) :
                             ev \in BodyEvents(732, c)} : c \in Codes(732)}
    ELSE IF msg_type = 528
        THEN {VMsg(0, FALSE, -1, FALSE, <<>>)}
             \cup {VMsg(0, TRUE, c, FALSE, <<>>) : c \in Codes(528)}
             \cup UNION {{VMsg(0, TRUE, c, TRUE, ev) :
                             ev \in BodyEvents(528, c)} : c \in Codes(528)}
    ELSE {VMsg(0, FALSE, -1, FALSE, <<>>), VMsg(0, FALSE, -1, TRUE, <<>>)}

\* what the code does with an admitted message: the handler invocations, or a
\* panic (a read past the end of v_msg, an unwrap of a failed parse)
Handled732(v) ==
    IF v.len < HeaderLen
        THEN [panicked |-> TRUE, events |-> <<>>]
    ELSE IF v.code \in ITypes
        THEN IF v.intact THEN [panicked |-> FALSE, events |-> v.events]
             ELSE [panicked |-> TRUE, events |-> <<>>]
    ELSE [panicked |-> FALSE, events |-> <<>>]

Handled528(v) ==
    IF ~v.jce
        THEN [panicked |-> TRUE, events |-> <<>>]
    ELSE IF v.code = 68
        THEN [panicked |-> FALSE, events |-> <<>>]
    ELSE IF v.code \in SubMsgTypes
        THEN IF v.intact THEN [panicked |-> FALSE, events |-> v.events]
             ELSE [panicked |-> TRUE, events |-> <<>>]
    ELSE [panicked |-> FALSE, events |-> <<>>]

\* lines 121-316: match info.msg_type
HandledPushReq(msg_type, v) ==
    IF msg_type = 732 THEN Handled732(v)
    ELSE IF msg_type = 528 THEN Handled528(v)
    ELSE [panicked |-> FALSE, events |-> <<>>]

\* the messages of a batch: two keys, on time or too old
BatchInfos ==
    {[info |-> Msg(id, time), msg_type |-> t, v_msg |-> v] :
        id \in {1, 2}, time \in {Time(0, StartTime - 1), Time(0, StartTime)},
        t \in MsgTypes, v \in UNION {VMsgs(t) : t \in MsgTypes}}

NoPass ==
    [msg_type |-> 0, v_msg |-> VMsg(0, FALSE, -1, FALSE, <<>>),
     exists |-> FALSE, panicked |-> FALSE, events |-> <<>>]

\* process_push_req is called with a batch of `input` messages
PushReqCall ==
    /\ callee = "process_push_req"
    /\ work.pc = "idle"
    /\ output = <<>>
    /\ work' = [pc |-> "loop", passed |-> 0, last |-> NoPass]
    /\ UNCHANGED <<callee, input, output>>
    /\ UNCHANGED <<netVars, stopVars, pushVars, groupVars, existsVars,
                   taskVars>>

\* lines 117-317: one pass of the loop, on the next message of the batch
PushReqPass ==
    /\ callee = "process_push_req"
    /\ work.pc = "loop"
    /\ work.passed < input
    /\ \E m \in BatchInfos :
          LET res == PushReqExists(reqCache, m.info)
              h == IF res.exists THEN [panicked |-> FALSE, events |-> <<>>]
                   ELSE HandledPushReq(m.msg_type, m.v_msg)
          IN  /\ m.v_msg \in VMsgs(m.msg_type)
              /\ reqCache' = res.cache
              /\ work' = [pc |-> IF h.panicked THEN "panicked" ELSE "loop",
                          passed |-> work.passed + 1,
                          last |-> [msg_type |-> m.msg_type,
                                    v_msg |-> m.v_msg,
                                    exists |-> res.exists,
                                    panicked |-> h.panicked,
                                    events |-> h.events]]
              /\ output' = IF h.panicked THEN <<"panicked">> ELSE output
    /\ UNCHANGED <<callee, input>>
    /\ UNCHANGED <<chan, transCache, last, pairCalls, sinceReset>>
    /\ UNCHANGED <<netVars, stopVars, groupVars, existsVars, taskVars>>

\* line 318: the batch is exhausted
PushReqReturn ==
    /\ callee = "process_push_req"
    /\ work.pc = "loop"
    /\ work.passed = input
    /\ work' = [work EXCEPT !.pc = "done"]
    /\ output' = <<"returned">>
    /\ UNCHANGED <<callee, input>>
    /\ UNCHANGED <<netVars, stopVars, pushVars, groupVars, existsVars,
                   taskVars>>

PushReqNext ==
    \/ PushReqCall
    \/ PushReqPass
    \/ PushReqReturn

----------------------------------------------------------------------------
(* The specifications *)

Init ==
    /\ NetInit /\ StopInit /\ PushInit({"none"}) /\ GroupInit
    /\ ExistsInit /\ TaskInit /\ CallInit("none", {<<>>})

SpecNet == Init /\ [][NetNext]_vars

SpecStop == Init /\ [][StopNext]_vars

SpecOffline == Init /\ [][OfflineNext]_vars

\* The scheduling of the tasks. A task that can take a step of its own takes
\* it: start and the loop between their suspension points, a write that has
\* begun, a stop call that has begun. select! polls its ready branches in
\* random order, so a branch that is ready again and again is taken. What the
\* peer sends and when, what the producers publish and who calls stop are
\* left open.
NetFairness ==
    /\ WF_vars(StartStoreRunning)
    /\ WF_vars(NetLoopSubscribe)
    /\ WF_vars(IncomeDone)
    /\ WF_vars(WriteOk \/ WriteErr)
    /\ SF_vars(LoopRecvFrame)
    /\ SF_vars(LoopRecvLagged)
    /\ SF_vars(LoopDisconnect)
    /\ WF_vars(StartDisconnect)
    /\ WF_vars(StartGetStatus)
    /\ WF_vars(StartStoreAfterLoop)
    /\ \A t \in Stoppers :
          /\ WF_vars(StopDisconnect(t))
          /\ WF_vars(StopStoreStatus(t))
          /\ WF_vars(StopClearOnline(t))

SpecNetFair == Init /\ [][NetNext]_vars /\ NetFairness

PushStart ==
    /\ NetInit /\ StopInit /\ PushInit({"req", "trans", "group"}) /\ GroupInit
    /\ ExistsInit /\ TaskInit /\ CallInit("none", {<<>>})

SpecPush == PushStart /\ [][PushNext]_vars

ExistsStart ==
    /\ NetInit /\ StopInit /\ PushInit({"req", "trans"}) /\ GroupInit
    /\ ExistsInit /\ TaskInit /\ CallInit("none", {<<>>})

SpecExists == ExistsStart /\ [][ExistsNext]_vars

GroupStart ==
    /\ NetInit /\ StopInit /\ PushInit({"group"}) /\ GroupInit
    /\ ExistsInit /\ TaskInit /\ CallInit("none", {<<>>})

SpecGroup == GroupStart /\ [][GroupNext]_vars

\* everything but the function applied is at rest
AtRest ==
    /\ NetInit /\ StopInit /\ PushInit({"none"}) /\ GroupInit
    /\ ExistsInit /\ TaskInit

ParseStart == AtRest /\ CallInit("parse_group_message", PartLists)

SpecParse == ParseStart /\ [][ParseNext]_vars

DecodeStart == AtRest /\ CallInit("decode", WellFormedInputs)

SpecDecode == DecodeStart /\ [][DecodeNext]_vars

DecodeBytesStart == AtRest /\ CallInit("decode_bytes", ByteInputs)

SpecDecodeBytes == DecodeBytesStart /\ [][DecodeBytesNext]_vars

PowStart == AtRest /\ CallInit("t546_to_t547", Challenges)

SpecPow == PowStart /\ [][PowNext]_vars

FrameStart == AtRest /\ CallInit("frame", FrameInputs)

SpecFrame == FrameStart /\ [][FrameNext]_vars

PushReqStart == AtRest /\ CallInit("process_push_req", 1..MaxBatch)

SpecPushReq == PushReqStart /\ [][PushReqNext]_vars

----------------------------------------------------------------------------
(* Claims about the dedup checks *)

Suppressed(d) == d.exists /\ d.calls = 0

\* C2 (as claimed): of two online-push messages with the same key that pass
\* the time-gate and are delivered one directly after the other, the first
\* not yet cached, exactly one reaches the handler.
C2_DuplicateHandledOnce ==
    (last.fn = "req" /\ pairCalls # -1) => pairCalls = 1

\* C4 (as claimed): a message whose timestamp is before start_time is
\* suppressed by each of the four checks.
C4_BeforeStartSuppressed ==
    /\ (last.fn # "none" /\ Before(last.time)) => Suppressed(last)
    /\ \A i \in 1..Len(groupOut) :
          Before(groupOut[i].msg_time) => Suppressed(groupOut[i])

\* C4 (amended): a message whose timestamp cast to i32 is before start_time
\* is suppressed by push_trans_exists, self_invited_exists and
\* join_group_request_exists, and by push_req_exists unless that i32 is 0.
C4_CastBeforeStartSuppressed ==
    /\ (last.fn = "trans" /\ AsI32(last.time) < StartTime) => Suppressed(last)
    /\ (last.fn = "req" /\ AsI32(last.time) < StartTime
           /\ AsI32(last.time) # 0) => Suppressed(last)
    /\ \A i \in 1..Len(groupOut) :
          AsI32(groupOut[i].msg_time) < StartTime => Suppressed(groupOut[i])

C4_Witness ==
    /\ last.fn = "trans"
    /\ last.time = Time(0, 0)
    /\ Suppressed(last)
    /\ transCache.keys = {}

\* C9: counting the miss-producing lookups since the last clear, the lookup
\* that brings the count above 10 leaves the cache empty with its counters
\* at zero, so every key inserted before it misses again; until then the
\* cache's own miss counter equals the count.
C9_FlushedAfterElevenMisses ==
    last.fn \in {"req", "trans"} =>
        LET c == CacheOf(last.fn)
        IN  /\ c.misses = sinceReset
            /\ sinceReset <= MissLimit
            /\ sinceReset = 0 =>
                  /\ c = EmptyCache
                  /\ \A id \in 1..MaxKeys :
                        ~CacheGet(c, KeyOf(Msg(id, last.time))).found

C9_Witness ==
    /\ last.fn = "req"
    /\ last.id = MissLimit + 1
    /\ ~last.exists
    /\ sinceReset = 0
    /\ reqCache = EmptyCache

\* C6 (as claimed): when two tasks run the dedup check at the same time for
\* the same key, absent from the cache, exactly one of them returns false.
C6_ExactlyOneAdmitted ==
    (ePaired /\ Len(eRes) = 2) => (eRes[1] # eRes[2])

Handled(out, k) ==
    Cardinality({i \in 1..Len(out) :
                    /\ out[i].fn = k[1]
                    /\ out[i].msg_seq = k[2]
                    /\ out[i].calls = 1})

\* C7 (as claimed): when two tasks run process_group_system_messages at the
\* same time on batches holding the same new on-time request, the handler
\* is invoked for that request exactly once.
C7_RequestHandledOnce ==
    (\A t \in Tasks : gPc[t] = "done") => \A k \in gRace :
                    Handled(gOut["a"], k) + Handled(gOut["b"], k) = 1

----------------------------------------------------------------------------
(* Claims about net.rs *)

ExitCauses == {"eof", "read_err", "decode", "write_err", "signal"}

NoStopCalled == \A t \in Stoppers : stopPc[t] = "idle"

\* C1 (as claimed): when the only stop call is stop(MsfOffline), made while
\* status is Running, then once stop and start have both returned the status
\* is MsfOffline.
C1_StopMsfOfflineKeepsStatus ==
    \A t \in Stoppers :
        ( /\ startPc = "done"
          /\ stopPc[t] = "done"
          /\ stopReason[t] = "MsfOffline"
          /\ stopAt[t]
          /\ \A u \in Stoppers \ {t} : stopPc[u] = "idle" )
        => status = "MsfOffline"

\* C3: whatever ends the loop, start is never blocked after it, and it returns
\* having sent the disconnect signal (with or without a receiver); its last
\* step stores NetworkOffline if the status it read was Running and leaves
\* the status alone otherwise; after an EOF with no stop call the status is
\* NetworkOffline.
C3_StartAfterLoop ==
    /\ [](exitCause # "none" => exitCause \in ExitCauses /\ ~LoopRunning)
    /\ [](startPc \in {"disconnect", "check", "store"} =>
             ENABLED (StartDisconnect \/ StartGetStatus \/ StartStoreAfterLoop))
    /\ [](startPc = "done" =>
             /\ startSend \in {"ok", "no_receiver"}
             /\ startSaw \in Statuses
             /\ (exitCause = "eof" /\ NoStopCalled) => status = "NetworkOffline")
    /\ [][(startPc = "store" /\ startPc' = "done") =>
             status' = IF startSaw = "Running" THEN "NetworkOffline" ELSE status]_vars

C3_Witness ==
    /\ startPc = "done"
    /\ exitCause = "eof"
    /\ NoStopCalled
    /\ startSend = "no_receiver"
    /\ status = "NetworkOffline"

\* C5 (as claimed): while the loop runs, every frame the channel accepted has
\* been written, is being written or is still waiting in the channel.
C5_NoFrameDropped ==
    LoopRunning =>
        \A f \in 1..nextFrame : f \in Range(written) \cup Range(outQ) \cup {curOut}

\* C8: right after a stop(reason) call the status is reason, online is false
\* and a subscribed loop has the disconnect signal waiting, from whatever
\* state stop was called; so a second stop(reason) in a row leaves the
\* status and the online flag as the first left them.
C8_StopForcesReason ==
    lastStop # "none" =>
        /\ status = lastStop
        /\ online = FALSE
        /\ sigSub => sigReady

C8_Witness ==
    /\ lastStop = "MsfOffline"
    /\ stopRun = 2
    /\ status = "MsfOffline"
    /\ online = FALSE
    /\ LoopRunning

\* C10: the step that takes the disconnect branch, and every step after it,
\* reads no frame, writes no frame and leaves the pending outbound frames in
\* the channel; the loop is left at once.
C10_NoIOAfterSignal ==
    /\ [](exitCause = "signal" => ~LoopRunning)
    /\ [][exitCause' = "signal" =>
             /\ written' = written
             /\ outQ' = outQ
             /\ curOut' = curOut
             /\ inPos' = inPos
             /\ curIn' = curIn
             /\ processed' = processed]_vars

C10_Witness ==
    /\ exitCause = "signal"
    /\ startPc = "done"
    /\ outQ # <<>>
    /\ inPos < MaxIn

\* C11: inbound frames are processed in arrival order by the one reader:
\* the frames whose process_income_packet completed are 1, 2, ... without a
\* gap, the frame inside process_income_packet is the latest one taken, a
\* frame is taken only when the one before it has completed, and while the
\* loop runs every frame taken has completed or is the one being processed.
C11_InboundInOrder ==
    /\ [](/\ \A i \in 1..Len(processed) : processed[i] = i
          /\ curIn # 0 => (curIn = inPos /\ Len(processed) = inPos - 1)
          /\ (LoopRunning /\ curIn = 0) => Len(processed) = inPos)
    /\ [][inPos' # inPos =>
            (curIn = 0 /\ Len(processed) = inPos /\ inPos' = inPos + 1)]_vars

C11_Witness ==
    /\ LoopRunning
    /\ processed = <<1, 2>>
    /\ written # <<>>

FatalCauses == {"decode", "read_err", "write_err"}

\* C12: a frame that does not decode, a read error and a failed write each
\* end the loop in the step they occur; afterwards no frame is read,
\* processed, received or written, start runs to its end, and when it has
\* ended the status is no longer Running.
C12_FailureIsFatal ==
    /\ [](exitCause \in FatalCauses =>
            /\ ~LoopRunning
            /\ curIn = 0
            /\ startPc = "done" => status # "Running"
            /\ startPc # "done" =>
                  ENABLED (StartDisconnect \/ StartGetStatus
                              \/ StartStoreAfterLoop))
    /\ [][exitCause' \in FatalCauses =>
            (/\ processed' = processed
             /\ written' = written
             /\ outQ' = outQ
             /\ curOut' = curOut
             /\ inPos' = inPos \/ exitCause = "none")]_vars

C12_Witness ==
    /\ exitCause = "write_err"
    /\ startPc = "done"
    /\ status = "NetworkOffline"
    /\ inPos < MaxIn
    /\ curOut # 0

----------------------------------------------------------------------------
(* Claims about parse_group_message *)

\* the parts with pkg_index i, in arrival order
WithIndex(parts, i) == SelectSeq(parts, LAMBDA p : p.pkg_index = i)

\* the elements of the parts by ascending pkg_index
RECURSIVE ElementsFrom(_, _)
ElementsFrom(parts, i) ==
    IF i > MaxIndex THEN <<>>
    ELSE Flatten([k \in 1..Len(WithIndex(parts, i)) |->
                     WithIndex(parts, i)[k].elems])
            \o ElementsFrom(parts, i + 1)

\* the part that sorts first: the earliest arrival of the lowest pkg_index
SortsFirst(parts) ==
    LET low == CHOOSE i \in 0..MaxIndex :
                  /\ WithIndex(parts, i) # <<>>
                  /\ \A j \in 0..MaxIndex : j < i => WithIndex(parts, j) = <<>>
    IN  WithIndex(parts, low)[1]

----------------------------------------------------------------------------
(* Claims about LoginResponse::decode *)

\* the variant of each status
VariantOf(st) ==
    CASE st = 0 -> "Success"
      [] st = 2 -> "NeedCaptcha"
      [] st = 40 -> "AccountFrozen"
      [] st \in {160, 239} -> "DeviceLocked"
      [] st = 162 -> "TooManySMSRequest"
      [] st = 204 -> "DeviceLockLogin"
      [] OTHER -> "UnknownStatus"

\* the optional fields of each variant that are listed with a tag of tlv_map
ListedFields(v) ==
    CASE v = "Success" ->
            {<<"rollback_sig", "0x161">>, <<"rand_seed", "0x403">>,
             <<"t402", "0x402">>}
      [] v = "NeedCaptcha" ->
            {<<"t104", "0x104">>, <<"verify_url", "0x192">>,
             <<"image_captcha", "0x165">>, <<"t547", "0x546">>}
      [] v = "DeviceLocked" ->
            {<<"t104", "0x104">>, <<"t174", "0x174">>, <<"t402", "0x402">>,
             <<"sms_phone", "0x178">>, <<"verify_url", "0x204">>,
             <<"message", "0x17e">>, <<"rand_seed", "0x403">>}
      [] v = "DeviceLockLogin" ->
            {<<"t104", "0x104">>, <<"t402", "0x402">>,
             <<"rand_seed", "0x403">>}
      [] OTHER -> {}

\* the optional fields of Success read from the block nested in 0x119
NestedFields ==
    {<<"ksid", "0x108">>, <<"account_info", "0x11a">>, <<"t512", "0x512">>,
     <<"wt_session_ticket_key", "0x134">>, <<"srm_token", "0x16a">>,
     <<"t133", "0x133">>, <<"encrypt_a1", "0x106">>, <<"tgt", "0x10a">>,
     <<"tgt_key", "0x10d">>, <<"user_st_key", "0x10e">>,
     <<"user_st_web_sig", "0x103">>, <<"s_key", "0x120">>,
     <<"d2", "0x143">>, <<"d2key", "0x305">>, <<"device_token", "0x322">>}

Decoded == callee = "decode" /\ output # <<>>

SuccessExpected == input.status = 0 /\ "0x119" \in input.tlv_map

\* the variant is the one of the status (Success needs 0x119)
RightVariant ==
    (input.status # 0 \/ SuccessExpected) =>
        output[1].variant = VariantOf(input.status)

C15_MissingT119Fails ==
    (Decoded /\ input.status = 0 /\ "0x119" \notin input.tlv_map) =>
        /\ output[1].variant = "Err"
        /\ output[1].error = "missing 0x119"
        /\ output[1].fields = NoFields

C15_Witness ==
    /\ Decoded
    /\ input.status = 0
    /\ input.tlv_map = {"0x161", "0x403", "0x402"}
    /\ output[1].variant = "Err"

----------------------------------------------------------------------------
(* Claims about t546_to_t547 *)

Returned == callee = "t546_to_t547" /\ output # <<>>

\* C16: for a challenge of type 2 with a 32-byte tgt, the payload returned
\* has the success flag set, its solved value is the smallest value at or
\* above src whose digest is tgt, and its count is that value minus src (the
\* value itself when src is 0).
C16_SolvedValueAndCount ==
    (Returned /\ input.typ = 2 /\ input.tgt_len = 32) =>
        /\ output[1].flag = 1
        /\ Len(output[1].extended) = 1
        /\ LET x == output[1].extended[1]
           IN  /\ Len(x.dst) = 1
               /\ x.dst[1] >= input.src
               /\ Sha256(x.dst[1]) = input.tgt
               /\ \A v \in input.src..(x.dst[1] - 1) : Sha256(v) # input.tgt
               /\ x.cnt = x.dst[1] - input.src
               /\ input.src = 0 => x.cnt = x.dst[1]

C16_Witness ==
    /\ Returned
    /\ input.typ = 2
    /\ input.tgt_len = 32
    /\ input.src = 0
    /\ input.tgt = Sha256(MaxN)
    /\ output[1].extended[1].dst = <<MaxN>>
    /\ output[1].extended[1].cnt = MaxN

\* C17 (as claimed): for a challenge whose type is not 2 the payload repeats
\* the fields of the challenge, its success flag is false whatever the flag
\* byte of the challenge, and nothing is appended.
C17_PassthroughClearsFlag ==
    (Returned /\ input.typ # 2) =>
        /\ \A k \in {"a", "typ", "c", "e", "f", "src", "tgt", "tgt_len",
                     "cpy"} : output[1][k] = input[k]
        /\ output[1].flag = 0
        /\ output[1].extended = <<>>

----------------------------------------------------------------------------
(* Claims about the framing *)

Framed == callee = "frame" /\ output # <<>>

\* C18 (as claimed): any payload encoded and then decoded comes back as it
\* was, and a frame whose length field is below 4 is a decode error.
C18_RoundTrip ==
    Framed =>
        /\ input.kind = "payload" =>
              (output[1].ok /\ output[1].payload = input.payload)
        /\ (input.kind = "raw" /\ GetUint(input.frame[1].head) < 4) =>
              ~output[1].ok

\* C18 (amended): a payload of at most max_frame_length - 4 bytes encoded
\* and then decoded comes back as it was, and a frame whose length field is
\* below 4 is a decode error.
C18_RoundTripWithinLimit ==
    Framed =>
        /\ (input.kind = "payload"
               /\ input.payload.len <= MaxFrameLen - LengthFieldLen) =>
              (output[1].ok /\ output[1].payload = input.payload)
        /\ (input.kind = "raw" /\ GetUint(input.frame[1].head) < 4) =>
              ~output[1].ok

C18_Witness ==
    /\ Framed
    /\ input.kind = "payload"
    /\ input.payload = Bytes(MaxFrameLen - 4, 255)
    /\ output[1].ok
    /\ output[1].payload = input.payload

----------------------------------------------------------------------------
(* Claims about the rolling cache of group system messages *)

\* the handler was invoked for the request of outcome o
Emitted(o) == o.calls = 1

\* the batch processed i batches before the latest held the request of o
InBatchBefore(i, o) ==
    /\ Len(groupSeen) > i
    /\ o.msg_seq \in groupSeen[Len(groupSeen) - i][o.fn]

\* C19: the cache is replaced by each batch, not merged: a request of the
\* batch before the latest one is not handed to the handler, and an on-time
\* request of the batch two before the latest, absent from the batch before
\* it, is handed to the handler again.
C19_ReplacedNotMerged ==
    chan = "group" => \A i \in 1..Len(groupOut) :
        LET o == groupOut[i]
        IN  /\ InBatchBefore(1, o) => ~Emitted(o)
            /\ (/\ InBatchBefore(2, o)
                /\ Len(groupSeen) > 1
                /\ ~InBatchBefore(1, o)
                /\ ~GroupGate(o.msg_time)) => Emitted(o)

C19_Witness ==
    /\ chan = "group"
    /\ Len(groupSeen) = 3
    /\ \E i \in 1..Len(groupOut) :
          /\ InBatchBefore(2, groupOut[i])
          /\ ~InBatchBefore(1, groupOut[i])
          /\ ~GroupGate(groupOut[i].msg_time)
          /\ Emitted(groupOut[i])
          /\ groupOut[i].fn = "join_group_request"

----------------------------------------------------------------------------
(* Claims about process_push_req *)

\* the latest message of the batch was admitted
Admitted ==
    /\ callee = "process_push_req"
    /\ work.pc # "idle"
    /\ work.passed > 0
    /\ ~work.last.exists

\* its msg_type has no branch, or its i_type or sub_msg_type has none
Unrecognised(m) ==
    \/ m.msg_type \notin {732, 528}
    \/ m.msg_type = 732 /\ m.v_msg.len >= ITypeAt /\ m.v_msg.code \notin ITypes
    \/ m.msg_type = 528 /\ m.v_msg.jce /\ m.v_msg.code \notin SubMsgTypes

\* C20 (as claimed): an admitted message whose msg_type is neither 732 nor
\* 528, or whose sub-type inside them is not a recognised one, causes no
\* handler invocation and no failure, and the loop goes on with the next
\* message of the batch.
C20_UnrecognisedIgnored ==
    (Admitted /\ Unrecognised(work.last)) =>
        /\ work.last.events = <<>>
        /\ ~work.last.panicked
        /\ work.pc \in {"loop", "done"}

----------------------------------------------------------------------------
(* Claims about the values LoginResponse::decode reads *)

\* C21 (as claimed): for every status and every map, with values of 0x165,
\* 0x146 and 0x178 that end early among them, decode returns a variant or a
\* decode error and never panics.
C21_NeverAborts ==
    (callee = "decode_bytes" /\ output # <<>>) =>
        output[1].variant # "Panic"

----------------------------------------------------------------------------
(* Claims about process_msf_force_offline *)

\* C22 (as claimed): process_msf_force_offline sends the response (a failure
\* is ignored), calls stop(MsfOffline) and then invokes the handler exactly
\* once; the handler finds the status MsfOffline and online false, and once
\* the loop has left on the signal and start has returned the status is
\* MsfOffline.
C22_OfflineThenHandler ==
    /\ off.pc = "done" =>
          /\ off.rsp \in {"ok", "err"}
          /\ off.handled = 1
          /\ off.saw = [status |-> "MsfOffline", online |-> FALSE]
    /\ (off.pc = "done" /\ startPc = "done" /\ exitCause = "signal") =>
          status = "MsfOffline"

----------------------------------------------------------------------------
(* Claims about the disconnect signal *)

\* C23 (as claimed): whenever stop is called after start has stored Running
\* and before start has returned, the loop leaves and start returns, under
\* fair scheduling of the tasks, whatever the loop was doing at the call.
C23_StopEndsStart ==
    \A t \in Stoppers :
        (stopPc[t] # "idle" /\ stopAt[t]) ~> (startPc = "done")

----------------------------------------------------------------------------
(* Claims about the two definitions of parse_group_message *)

\* the elements without content among the parts
EmptyElements(parts) ==
    Len(SelectSeq(ElementsFrom(parts, 0), LAMBDA e : e.elem = 0))

\* what the definition named by gives for the argument: the message returned
\* when it was the one called
MessageBy(by) ==
    IF output[1].by = by THEN output[1].msg
    ELSE IF by = "A" THEN ParseGroupMessageA(input)
    ELSE ParseGroupMessageB(input)

\* C24: for every list of parts the two definitions give the same seqs,
\* rands, group_code, group_name, group_card, from_uin and time; the first
\* gives the elements of the second without the empty ones, so the elements
\* are the same when no element is empty and the second has as many more
\* elements as there are empty ones.
C24_EqualButEmptyElements ==
    (callee = "parse_group_message" /\ output # <<>>) =>
        LET a == MessageBy("A")
            b == MessageBy("B")
        IN  /\ a.seqs = b.seqs
            /\ a.rands = b.rands
            /\ a.group_code = b.group_code
            /\ a.group_name = b.group_name
            /\ a.group_card = b.group_card
            /\ a.from_uin = b.from_uin
            /\ a.time = b.time
            /\ a.elements = SelectSeq(b.elements, LAMBDA e : e.elem # 0)
            /\ EmptyElements(input) = 0 => a.elements = b.elements
            /\ Len(b.elements) - Len(a.elements) = EmptyElements(input)

C24_Witness ==
    /\ callee = "parse_group_message"
    /\ input = <<Part(1, 1, "one"), Part(2, 0, "gap")>>
    /\ output # <<>>
    /\ output[1].by = "B"
    /\ output[1].msg.elements =
          <<[elem |-> 21], NoElem, [elem |-> 22], [elem |-> 11]>>
    /\ ParseGroupMessageA(input).elements =
          <<[elem |-> 21], [elem |-> 22], [elem |-> 11]>>

----------------------------------------------------------------------------
(* Claims about the size of the dedup state *)

\* C25: from an empty cache with no misses, after every completed call of
\* push_req_exists and of push_trans_exists the cache holds at most 10 keys,
\* its miss counter is at most 10, and it holds no more keys than it counted
\* misses since the last reset.
C25_BoundedDedupState ==
    \A c \in {reqCache, transCache} :
        /\ Cardinality(c.keys) <= MissLimit
        /\ c.misses <= MissLimit
        /\ Cardinality(c.keys) <= c.misses

C25_Witness ==
    /\ last.fn = "req"
    /\ ~last.gated
    /\ ~last.exists
    /\ Cardinality(reqCache.keys) = MissLimit
    /\ reqCache.misses = MissLimit

----------------------------------------------------------------------------
(* Claims about what the time-gate leaves alone *)

\* the delivery of this step repeats the key of the one before it, which the
\* time-gate suppressed and which is not cached
RepeatsGated ==
    /\ last.fn \in {"req", "trans"}
    /\ last.gated
    /\ last'.fn = last.fn
    /\ last'.id = last.id
    /\ KeyOf(Msg(last.id, last.time)) \notin CacheOf(last.fn).keys

\* a delivery the time-gate suppresses returns true and changes neither
\* cache: no key inserted, no miss counted, no flush
GatedLeavesCaches ==
    last'.gated =>
        /\ last'.exists
        /\ reqCache' = reqCache
        /\ transCache' = transCache
        /\ sinceReset' = sinceReset

\* C26 (as claimed): a message suppressed by the time-gate leaves the dedup
\* state unchanged, and a message with the same key delivered after it with
\* a timestamp at or after start_time is admitted.
C26_GatedThenAdmitted ==
    [][/\ GatedLeavesCaches
       /\ (RepeatsGated /\ ~Before(last'.time)) => ~last'.exists]_vars

\* C26 (amended): a message suppressed by the time-gate leaves the dedup
\* state unchanged, and a message with the same key delivered after it is
\* admitted when its timestamp cast to i32 is at or after start_time, and by
\* push_req_exists also when that i32 is 0.
C26_GatedThenCastAdmitted ==
    [][/\ GatedLeavesCaches
       /\ (/\ RepeatsGated
           /\ \/ AsI32(last'.time) >= StartTime
              \/ last'.fn = "req" /\ AsI32(last'.time) = 0) =>
             ~last'.exists]_vars

C26_Witness ==
    /\ last.fn = "req"
    /\ last.afterGated
    /\ last.time = Time(0, StartTime)
    /\ ~last.gated
    /\ ~last.exists
    /\ last.calls = 1
    /\ KeyOf(Msg(last.id, last.time)) \in reqCache.keys

----------------------------------------------------------------------------
(* Claims about what start leaves behind *)

\* a step of start or of the loop it runs
StartStep ==
    \/ startPc' # startPc
    \/ exitCause' # exitCause
    \/ startSaw' # startSaw
    \/ startSend' # startSend
    \/ sigSub' # sigSub
    \/ outSub' # outSub
    \/ inPos' # inPos
    \/ curIn' # curIn
    \/ curOut' # curOut
    \/ written' # written

\* the last step of some stop call
StopClears ==
    \E t \in Stoppers : stopPc[t] = "clear" /\ stopPc'[t] = "done"

NetworkFailures == {"eof", "read_err", "decode", "write_err"}

\* C27: no step of start or of its loop writes the online flag, and only the
\* last step of stop clears it; so after a loop that ended on a network
\* failure with no stop call the flag has the value it had.
C27_StartKeepsOnline ==
    [][/\ StartStep => online' = online
       /\ (online /\ ~online') => StopClears]_vars

C27_Witness ==
    /\ startPc = "done"
    /\ exitCause \in NetworkFailures
    /\ NoStopCalled
    /\ status = "NetworkOffline"
    /\ online

\* the reasons the stop calls have stored
StoredReasons ==
    {stopReason[t] : t \in {u \in Stoppers : stopPc[u] \in {"clear", "done"}}}

\* C28: once start has returned the status is not Running, whatever stop
\* calls ran beside it: it is NetworkOffline or a reason a stop call stored.
C28_NotRunningAfterStart ==
    startPc = "done" =>
        /\ status # "Running"
        /\ status \in {"NetworkOffline"} \cup StoredReasons

C28_Witness ==
    /\ startPc = "done"
    /\ startSaw = "Running"
    /\ status = "MsfOffline"
    /\ \E t \in Stoppers : stopPc[t] = "clear" /\ stopReason[t] = "MsfOffline"
    /\ \E t \in Stoppers : stopPc[t] = "idle"

====
